---- MODULE Spec2Model ----
(***************************************************************************)
(* Event ledger, process lifecycle and replay validation of the ADK        *)
(* runtime (adk_runtime/*, scripts/replay_runner.py,                       *)
(* scripts/render_trace_tree.py).                                          *)
(*                                                                         *)
(* Python values are modelled as follows.  A dict is a TLA+ function from  *)
(* key strings to values; None is the reserved string None; a line of a    *)
(* .jsonl file is the canonical JSON text, modelled as the sequence of     *)
(* <<key, value>> pairs in sorted key order (nested for payload and        *)
(* actor); json.loads turns such a sequence back into a dict.  SHA-256 is  *)
(* modelled as a collision-free tagging of the hashed text.  uuid4() is a  *)
(* draw from a pool of ids that never repeats.                             *)
(***************************************************************************)
EXTENDS Integers, Sequences, FiniteSets, TLC

VARIABLES
    files,            \* path -> sequence of lines (the .jsonl files on disk)
    has_store,        \* runtime_data/memory_store.json exists
    identity_file,    \* runtime_data/system_identity.json: None, or its system_id
    pc,               \* "idle" (no process), "running", "exiting" (atexit phase)
    ctx,              \* the BootContext returned by boot() in this process
    ledger_path,      \* path of the EventLedger the programs hand to boot()
    process_context,  \* trace_context._system_id_var/_process_id_var/_run_id_var
    actor_var,        \* trace_context._actor_var
    hooks_installed,  \* install_lifecycle_hooks() has run in this process
    emitted,          \* the closure flag emitted["done"]
    handlers,         \* stack of running _emit_shutdown frames (top = last)
    n_boots,          \* boot() calls made so far
    shutdown_calls,   \* explicit shutdown calls made so far
    signals_sent,     \* signals delivered so far
    uuid_next,        \* index of the next unused uuid
    now,              \* the clock read by utc_ts_iso()
    report,           \* what the run of scripts/replay_runner.py returned
    rendered,         \* what the run of scripts/render_trace_tree.py printed
    verified,         \* what the run of scripts/verify_events_ledger.py returned
    outcome,          \* how the last write or read call of a client ended
    partial,          \* the line a writer has written only a part of so far
    tc,               \* a TraceContext: its _stack, and the calls made on it
    gov,              \* the MCP-10 governance layer: its files and its traffic
    mem               \* the memory store and the P08MemoryGate in front of it

vars == <<files, has_store, identity_file, pc, ctx, ledger_path,
          process_context, actor_var, hooks_installed, emitted, handlers,
          n_boots, shutdown_calls, signals_sent, uuid_next, now, report,
          rendered, verified, outcome, partial, tc, gov, mem>>

(* What the clients' calls leave, and what the running process and the *)
(* offline tools leave, alone.                                         *)
call_vars == <<outcome, partial, tc, gov, mem>>

tool_vars == <<report, rendered, verified, call_vars>>

process_vars == <<has_store, identity_file, pc, ctx, ledger_path,
                  process_context, actor_var, hooks_installed, emitted,
                  handlers, n_boots, shutdown_calls, signals_sent, uuid_next>>

----------------------------------------------------------------------------
(* Bounds of the model. *)
MaxBoots == 3
MaxShutdownCalls == 2
MaxHookBoots == 1
MaxSignals == 1

----------------------------------------------------------------------------
(* Python values. *)
None == "<None>"

Truthy(v) == v /= None /\ v /= ""

PyOr(a, b) == IF Truthy(a) THEN a ELSE b

EmptyDict == [k \in {} |-> None]

Get(d, k) == IF k \in DOMAIN d THEN d[k] ELSE None

Put(d, k, v) == [x \in DOMAIN d \cup {k} |-> IF x = k THEN v ELSE d[x]]

Pop(d, k) == [x \in DOMAIN d \ {k} |-> d[x]]

(* uuid.uuid4(): the n-th draw; f"sys_{hex}", f"proc_{hex}", f"run_{hex}". *)
UuidPool == <<
    "uuid_01", "uuid_02", "uuid_03", "uuid_04", "uuid_05", "uuid_06",
    "uuid_07", "uuid_08", "uuid_09", "uuid_10", "uuid_11", "uuid_12",
    "uuid_13", "uuid_14", "uuid_15", "uuid_16", "uuid_17", "uuid_18",
    "uuid_19", "uuid_20", "uuid_21", "uuid_22", "uuid_23", "uuid_24",
    "uuid_25", "uuid_26", "uuid_27", "uuid_28", "uuid_29", "uuid_30",
    "uuid_31", "uuid_32", "uuid_33", "uuid_34", "uuid_35", "uuid_36",
    "uuid_37", "uuid_38", "uuid_39", "uuid_40" >>

SysIdPool == <<
    "sys_01", "sys_02", "sys_03", "sys_04", "sys_05", "sys_06", "sys_07",
    "sys_08", "sys_09", "sys_10", "sys_11", "sys_12", "sys_13", "sys_14",
    "sys_15", "sys_16", "sys_17", "sys_18", "sys_19", "sys_20", "sys_21",
    "sys_22", "sys_23", "sys_24", "sys_25", "sys_26", "sys_27", "sys_28",
    "sys_29", "sys_30", "sys_31", "sys_32", "sys_33", "sys_34", "sys_35",
    "sys_36", "sys_37", "sys_38", "sys_39", "sys_40" >>

ProcIdPool == <<
    "proc_01", "proc_02", "proc_03", "proc_04", "proc_05", "proc_06",
    "proc_07", "proc_08", "proc_09", "proc_10", "proc_11", "proc_12",
    "proc_13", "proc_14", "proc_15", "proc_16", "proc_17", "proc_18",
    "proc_19", "proc_20", "proc_21", "proc_22", "proc_23", "proc_24",
    "proc_25", "proc_26", "proc_27", "proc_28", "proc_29", "proc_30",
    "proc_31", "proc_32", "proc_33", "proc_34", "proc_35", "proc_36",
    "proc_37", "proc_38", "proc_39", "proc_40" >>

RunIdPool == <<
    "run_01", "run_02", "run_03", "run_04", "run_05", "run_06", "run_07",
    "run_08", "run_09", "run_10", "run_11", "run_12", "run_13", "run_14",
    "run_15", "run_16", "run_17", "run_18", "run_19", "run_20", "run_21",
    "run_22", "run_23", "run_24", "run_25", "run_26", "run_27", "run_28",
    "run_29", "run_30", "run_31", "run_32", "run_33", "run_34", "run_35",
    "run_36", "run_37", "run_38", "run_39", "run_40" >>

uuid4(n) == UuidPool[n]

(* An optional argument or global: Absent is Python's None, Some(v) a value. *)
Absent == <<>>

Some(v) == <<v>>

----------------------------------------------------------------------------
(* adk_runtime/paths.py *)
EVENTS_FILE == "runtime_data/events.jsonl"

GATE_LEDGER_FILE == "runtime_data/memory_gate_ledger.jsonl"

LedgerPaths == {EVENTS_FILE, GATE_LEDGER_FILE}

(* adk_runtime/observability.py: OBS_EVENTS_FILE *)
OBS_EVENTS_FILE == "runtime_data/observability/observability_events.jsonl"

FilePaths == LedgerPaths \cup {OBS_EVENTS_FILE}

----------------------------------------------------------------------------
(* adk_runtime/events.py *)
SCHEMA_VERSION == "1.1"

(* Every key of the model's dicts, in the order sorted() gives them.  An   *)
(* int key n is written "#n": ints sort by value, and json.dumps writes   *)
(* the key n as the string "n".  (A dict mixing int and str keys makes    *)
(* json.dumps raise; the model has none.)                                 *)
KeyOrder == <<
    "#2", "#10",
    "10", "2",
    "_actor", "_missing_run_id_reason", "_parent_span_id", "_process_id",
    "_source", "_span_id", "_system_id", "_trace_id", "action", "actor", "args",
    "boot_mode", "decision", "error", "event_type", "exit_reason", "id", "kind",
    "message", "ok", "parent_span_id", "payload", "payload_hash", "process_id",
    "proposal", "proposal_id", "reason", "recovered_from_run_id", "reply",
    "result", "rule_id", "run_id", "schema_version", "session_id", "source", "span_id",
    "started_at", "store_version", "supported", "system_id", "text",
    "tool_calls", "tool_name", "trace_id", "ts", "zone" >>

SortedKeys(d) == SelectSeq(KeyOrder, LAMBDA k : k \in DOMAIN d)

(* The text json.dumps writes for a key. *)
key_text(k) == IF k = "#2" THEN "2" ELSE IF k = "#10" THEN "10" ELSE k

(* json.dumps(obj, sort_keys=True, separators=(",", ":"), ensure_ascii=False): *)
(* the <<key text, value text>> pairs in the order of the sorted keys.  Of a   *)
(* dict of scalars (an actor, the args of a tool call):                       *)
canonical_scalars(obj) ==
    LET ks == SortedKeys(obj)
    IN  [i \in 1..Len(ks) |-> <<key_text(ks[i]), obj[ks[i]]>>]

(* of a payload, where the value of args is a dict: *)
canonical_json(obj) ==
    LET ks == SortedKeys(obj)
    IN  [i \in 1..Len(ks) |->
            <<key_text(ks[i]), IF ks[i] = "args" THEN canonical_scalars(obj[ks[i]])
                               ELSE obj[ks[i]]>>]

(* and of the envelope dict, where payload and actor are dicts. *)
canonical_line(env_dict) ==
    LET ks == SortedKeys(env_dict)
    IN  [i \in 1..Len(ks) |->
            <<ks[i], IF ks[i] = "payload" THEN canonical_json(env_dict[ks[i]])
                     ELSE IF ks[i] = "actor" THEN canonical_scalars(env_dict[ks[i]])
                     ELSE env_dict[ks[i]]>>]

sha256_hex(s) == <<"sha256", s>>

(* json.loads of such a text: every key a string, the last of equal keys  *)
(* wins.  Of the text of a dict of scalars, of a payload, of a line.      *)
json_loads_object(text) ==
    [k \in {text[i][1] : i \in DOMAIN text} |->
        text[CHOOSE i \in DOMAIN text :
                text[i][1] = k /\ \A j \in DOMAIN text : text[j][1] = k => j <= i][2]]

json_loads_payload(text) ==
    LET top == json_loads_object(text)
    IN  [k \in DOMAIN top |->
            IF k = "args" THEN json_loads_object(top[k]) ELSE top[k]]

json_loads(line) ==
    LET top == json_loads_object(line)
    IN  [k \in DOMAIN top |->
            IF k = "payload" THEN json_loads_payload(top[k])
            ELSE IF k = "actor" THEN json_loads_object(top[k])
            ELSE top[k]]

utc_ts_iso(clock) == clock

(* trace_context.get_current_actor() *)
DefaultActor == [kind |-> "runtime", id |-> "p00-agent-os-mvp", source |-> "runtime"]

get_current_actor(av) == IF av /= Absent THEN av[1] ELSE DefaultActor

(* A migration that copies the legacy key and forgets to remove it. *)
migrate_legacy_keeps_legacy(payload, legacy, reserved) ==
    IF legacy \in DOMAIN payload /\ reserved \notin DOMAIN payload
    THEN Put(payload, reserved, payload[legacy])
    ELSE payload

(* EventWriter.emit, lines 76-88: normalisation of the payload keys. *)
migrate_legacy(payload, legacy, reserved) ==
    IF legacy \in DOMAIN payload /\ reserved \notin DOMAIN payload
    THEN Put(Pop(payload, legacy), reserved, payload[legacy])
    ELSE IF legacy \in DOMAIN payload THEN Pop(payload, legacy)
    ELSE payload

normalize_payload(payload) ==
    LET p0 == IF "trace_id" \in DOMAIN payload THEN Pop(payload, "trace_id")
              ELSE payload
        p1 == migrate_legacy(p0, "span_id", "_span_id")
    IN  migrate_legacy(p1, "parent_span_id", "_parent_span_id")

(* A writer that lets the ambient actor win over the argument. *)
emit_actor_ambient_first(actor, av) ==
    IF av /= Absent THEN av[1] ELSE IF actor /= Absent THEN actor[1] ELSE DefaultActor

(* EventWriter.emit, lines 91-95: the actor of the envelope and its asserts. *)
emit_actor(actor, av) == IF actor /= Absent THEN actor[1] ELSE get_current_actor(av)

(* Asserts that forget the test of id against "unknown". *)
emit_raises_unless_id_unknown(act) ==
    \/ ~Truthy(Get(act, "kind"))
    \/ ~Truthy(Get(act, "id"))

emit_raises(act) ==
    \/ ~Truthy(Get(act, "kind"))
    \/ ~Truthy(Get(act, "id"))
    \/ Get(act, "id") = "unknown"

(* EventWriter.emit, line 97-98: the hash recorded in the envelope. *)
emit_payload_hash(payload) == sha256_hex(canonical_json(normalize_payload(payload)))

(* EventWriter.emit, lines 100-112: the line written. *)
emit_line(event_type, session_id, trace_id, payload, ts, act) ==
    canonical_line(
        [schema_version |-> SCHEMA_VERSION,
         event_type     |-> event_type,
         session_id     |-> session_id,
         trace_id       |-> trace_id,
         ts             |-> ts,
         payload        |-> normalize_payload(payload),
         payload_hash   |-> emit_payload_hash(payload),
         actor          |-> act])

(* A writer that opens the file with mode "w": what was there is lost. *)
emit_truncating(fs, events_file, event_type, session_id, trace_id, payload, ts, actor, av, clock) ==
    LET act == emit_actor(actor, av)
        t   == IF ts /= Absent THEN ts[1] ELSE utc_ts_iso(clock)
    IN  IF emit_raises(act) THEN fs
        ELSE [fs EXCEPT ![events_file] =
                <<emit_line(event_type, session_id, trace_id, payload, t, act)>>]

(* EventWriter.emit on events_file: the files after the call.  ts is Absent *)
(* or Some(t); actor is Absent or Some(dict).  A raising call writes nothing. *)
emit(fs, events_file, event_type, session_id, trace_id, payload, ts, actor, av, clock) ==
    LET act == emit_actor(actor, av)
        t   == IF ts /= Absent THEN ts[1] ELSE utc_ts_iso(clock)
    IN  IF emit_raises(act) THEN fs
        ELSE [fs EXCEPT ![events_file] =
                Append(@, emit_line(event_type, session_id, trace_id, payload, t, act))]

(* events.append_event: always a writer on EVENTS_FILE. *)
append_event(fs, event_type, session_id, trace_id, payload, ts, actor, av, clock) ==
    emit(fs, EVENTS_FILE, event_type, session_id, trace_id, payload, ts, actor, av, clock)

----------------------------------------------------------------------------
(* adk_runtime/event_ledger.py *)

(* EventLedger.append: session_id and trace_id are None or a string. *)
ledger_append(fs, path, event_type, payload, session_id, trace_id, ts, av, clock) ==
    LET sid_pop == ~Truthy(session_id)
        sid     == PyOr(session_id, PyOr(Get(payload, "session_id"), "unknown"))
        p1      == IF sid_pop THEN Pop(payload, "session_id") ELSE payload
        t_pop   == ~Truthy(trace_id)
        t1      == Get(p1, "trace_id")
        p2      == IF t_pop THEN Pop(p1, "trace_id") ELSE p1
        u_pop   == t_pop /\ ~Truthy(t1)
        t2      == Get(p2, "_trace_id")
        p3      == IF u_pop THEN Pop(p2, "_trace_id") ELSE p2
        trace   == IF ~t_pop THEN trace_id
                   ELSE IF Truthy(t1) THEN t1
                   ELSE PyOr(t2, "unknown")
    IN  append_event(fs, event_type, sid, trace, p3, ts, Absent, av, clock)

(* EventLedger.read_all: the events of the file at path, oldest first. *)
read_all(fs, path) == [i \in 1..Len(fs[path]) |-> json_loads(fs[path][i])]

----------------------------------------------------------------------------
(* adk_runtime/process/boot.py *)

NoCtx ==
    [system_id |-> None, process_id |-> None, run_id |-> None,
     boot_mode |-> None, started_at |-> None, recovered_from_run_id |-> None]

NoProcessContext ==
    [system_id |-> None, process_id |-> None, run_id |-> None, boot_span_id |-> None]

(* A system_identity.json that exists but holds no system_id. *)
CorruptIdentity == [schema_version |-> 1, system_id |-> "", created_at |-> 0]

(* A test that forgets the empty system_id. *)
identity_raises_if_key_missing(idf) ==
    idf /= Absent /\ "system_id" \notin DOMAIN idf[1]

identity_raises(idf) ==
    idf /= Absent /\ ~Truthy(Get(idf[1], "system_id"))

(* An identity that is created anew on every call. *)
load_or_create_system_id_anew(idf, u, clock) ==
    [schema_version |-> 1, system_id |-> SysIdPool[u], created_at |-> clock]

(* load_or_create_system_id: the dict returned, and the file afterwards. *)
load_or_create_system_id(idf, u, clock) ==
    IF idf /= Absent THEN idf[1]
    ELSE [schema_version |-> 1, system_id |-> SysIdPool[u], created_at |-> clock]

PayloadOf(ev) == IF "payload" \in DOMAIN ev THEN ev["payload"] ELSE EmptyDict

EventTypeOf(ev) == PyOr(Get(ev, "event_type"), Get(ev, "type"))

RunIdOf(ev) == PyOr(Get(PayloadOf(ev), "run_id"), Get(ev, "run_id"))

(* A scan that reports the first boot left without a shutdown, recent or not. *)
get_last_run_status_any_unclosed(events) ==
    LET closed == {RunIdOf(events[i]) : i \in {j \in DOMAIN events :
                        EventTypeOf(events[j]) = "system.shutdown"}}
        open   == {i \in DOMAIN events :
                        /\ EventTypeOf(events[i]) = "system.boot"
                        /\ RunIdOf(events[i]) \notin closed}
    IN  IF open = {} THEN [status |-> "complete"]
        ELSE [status |-> "incomplete",
              recovered_from_run_id |-> RunIdOf(events[CHOOSE i \in open : \A j \in open : i <= j])]

(* _get_last_run_status over the events read from the ledger. *)
get_last_run_status(events) ==
    LET boots == {i \in DOMAIN events : EventTypeOf(events[i]) = "system.boot"}
        last_shutdown_by_run ==
            {RunIdOf(events[i]) : i \in {j \in DOMAIN events :
                /\ EventTypeOf(events[j]) = "system.shutdown"
                /\ Truthy(RunIdOf(events[j]))}}
    IN  IF boots = {} THEN [status |-> "no_boot_found"]
        ELSE LET last_boot == events[CHOOSE i \in boots : \A j \in boots : j <= i]
                 rid == RunIdOf(last_boot)
             IN  IF Truthy(rid) /\ rid \notin last_shutdown_by_run
                 THEN [status |-> "incomplete", recovered_from_run_id |-> rid]
                 ELSE [status |-> "complete", last_run_id |-> rid]

(* boot, lines 105-118: the boot mode and the run recovered from. *)
boot_mode_of(store_exists, events) ==
    IF ~store_exists THEN [boot_mode |-> "cold", recovered_from |-> None]
    ELSE LET last_status == get_last_run_status(events)
         IN  IF Get(last_status, "status") = "incomplete"
             THEN [boot_mode |-> "recover",
                   recovered_from |-> Get(last_status, "recovered_from_run_id")]
             ELSE [boot_mode |-> "warm", recovered_from |-> None]

(* A boot that does not draw a fresh uuid for the run id. *)
new_run_id_reused(u) == RunIdPool[1]

(* boot, line 102: the run id of the new run, from the next uuid draw. *)
new_run_id(u) == RunIdPool[u]

(* boot, lines 133-143: the payload of system.boot. *)
boot_payload(c) ==
    [system_id |-> c.system_id, process_id |-> c.process_id, run_id |-> c.run_id,
     boot_mode |-> c.boot_mode, started_at |-> c.started_at,
     recovered_from_run_id |-> c.recovered_from_run_id]

(* A slip that stores the process id in _run_id_var. *)
set_process_context_run_slip(system_id, process_id, run_id) ==
    [system_id |-> system_id, process_id |-> process_id, run_id |-> process_id,
     boot_span_id |-> None]

(* trace_context.set_process_context *)
set_process_context(system_id, process_id, run_id) ==
    [system_id |-> system_id, process_id |-> process_id, run_id |-> run_id,
     boot_span_id |-> None]

(* boot(ledger=EventLedger(ledger_path)) in a fresh process; at most max *)
(* calls are explored.                                                   *)
boot(max) ==
    /\ pc = "idle"
    /\ n_boots < max
    /\ ~identity_raises(identity_file)
    /\ LET u0       == IF identity_file = Absent THEN uuid_next + 1 ELSE uuid_next
           identity == load_or_create_system_id(identity_file, uuid_next, now)
           mode     == boot_mode_of(has_store, read_all(files, ledger_path))
           c        == [system_id   |-> identity["system_id"],
                        process_id  |-> ProcIdPool[u0],
                        run_id      |-> new_run_id(u0 + 1),
                        boot_mode   |-> mode.boot_mode,
                        started_at  |-> now,
                        recovered_from_run_id |-> mode.recovered_from]
       IN  /\ identity_file' = Some(identity)
           /\ uuid_next' = u0 + 2
           /\ ctx' = c
           /\ process_context' =
                set_process_context(c.system_id, c.process_id, c.run_id)
           /\ files' = ledger_append(files, ledger_path, "system.boot", boot_payload(c),
                                     None, None, Absent, actor_var, now)
    /\ pc' = "running"
    /\ n_boots' = n_boots + 1
    /\ now' = now + 1
    /\ UNCHANGED <<has_store, ledger_path, actor_var, hooks_installed, emitted, handlers,
                   shutdown_calls, signals_sent>>
    /\ UNCHANGED tool_vars

(* boot() when system_identity.json exists without a system_id: ValueError *)
(* at line 43, before anything is written; the process dies.               *)
boot_raises(max) ==
    /\ pc = "idle"
    /\ n_boots < max
    /\ identity_raises(identity_file)
    /\ n_boots' = n_boots + 1
    /\ UNCHANGED <<files, has_store, identity_file, pc, ctx, ledger_path,
                   process_context, actor_var, hooks_installed, emitted,
                   handlers, shutdown_calls, signals_sent, uuid_next, now>>
    /\ UNCHANGED tool_vars

(* boot() step by step.  Lines 98-130: the identity is loaded or created, *)
(* the ids are drawn, the boot mode is decided, the BootContext is built  *)
(* and installed with set_process_context.                                *)
boot_install(max) ==
    /\ pc = "idle"
    /\ n_boots < max
    /\ ~identity_raises(identity_file)
    /\ LET u0       == IF identity_file = Absent THEN uuid_next + 1 ELSE uuid_next
           identity == load_or_create_system_id(identity_file, uuid_next, now)
           mode     == boot_mode_of(has_store, read_all(files, ledger_path))
           c        == [system_id   |-> identity["system_id"],
                        process_id  |-> ProcIdPool[u0],
                        run_id      |-> new_run_id(u0 + 1),
                        boot_mode   |-> mode.boot_mode,
                        started_at  |-> now,
                        recovered_from_run_id |-> mode.recovered_from]
       IN  /\ identity_file' = Some(identity)
           /\ uuid_next' = u0 + 2
           /\ ctx' = c
           /\ process_context' =
                set_process_context(c.system_id, c.process_id, c.run_id)
    /\ pc' = "booting"
    /\ n_boots' = n_boots + 1
    /\ UNCHANGED <<files, has_store, ledger_path, actor_var, hooks_installed, emitted,
                   handlers, shutdown_calls, signals_sent, now>>
    /\ UNCHANGED tool_vars

(* Lines 133-145: system.boot is appended and the BootContext returned. *)
BootAppend ==
    /\ pc = "booting"
    /\ files' = ledger_append(files, ledger_path, "system.boot", boot_payload(ctx),
                              None, None, Absent, actor_var, now)
    /\ pc' = "running"
    /\ now' = now + 1
    /\ UNCHANGED <<has_store, identity_file, ctx, ledger_path, process_context,
                   actor_var, hooks_installed, emitted, handlers, n_boots,
                   shutdown_calls, signals_sent, uuid_next>>
    /\ UNCHANGED tool_vars

(* memory_store._write_memory_file: the durable store comes to exist. *)
WriteMemoryFile ==
    /\ pc = "running"
    /\ handlers = <<>>
    /\ ~has_store
    /\ has_store' = TRUE
    /\ UNCHANGED <<files, identity_file, pc, ctx, ledger_path, process_context,
                   actor_var, hooks_installed, emitted, handlers, n_boots,
                   shutdown_calls, signals_sent, uuid_next, now>>
    /\ UNCHANGED tool_vars

----------------------------------------------------------------------------
(* adk_runtime/process/lifecycle.py *)

ExitReasons == {"normal", "exception"}

Signals == {"signal:2", "signal:15"}

(* shutdown, lines 21-37: the payload handed to ledger.append. *)
shutdown_payload(c, exit_reason, span_id, parent_span) ==
    LET base == [system_id |-> c.system_id, process_id |-> c.process_id,
                 run_id |-> c.run_id, exit_reason |-> exit_reason,
                 trace_id |-> c.run_id, actor |-> "runtime",
                 span_id |-> span_id, _actor |-> "runtime", _span_id |-> span_id]
    IN  IF Truthy(parent_span)
        THEN Put(Put(base, "parent_span_id", parent_span),
                 "_parent_span_id", parent_span)
        ELSE base

(* shutdown(ledger, ctx, exit_reason): the files after the call. *)
shutdown(fs, path, c, exit_reason, span_id, parent_span, av, clock) ==
    ledger_append(fs, path, "system.shutdown",
                  shutdown_payload(c, exit_reason, span_id, parent_span),
                  "system", None, Absent, av, clock)

(* The main program calls shutdown(ledger=ledger, ctx=ctx, ...). *)
Shutdown(exit_reason) ==
    /\ pc = "running"
    /\ handlers = <<>>
    /\ shutdown_calls < MaxShutdownCalls
    /\ files' = shutdown(files, ledger_path, ctx, exit_reason, uuid4(uuid_next),
                         process_context.boot_span_id, actor_var, now)
    /\ shutdown_calls' = shutdown_calls + 1
    /\ uuid_next' = uuid_next + 1
    /\ now' = now + 1
    /\ UNCHANGED <<has_store, identity_file, pc, ctx, ledger_path,
                   process_context, actor_var, hooks_installed, emitted,
                   handlers, n_boots, signals_sent>>
    /\ UNCHANGED tool_vars

(* _emit_shutdown, lines 47-55: the payload handed to append_event. *)
hook_payload(c, reason, source, span_id) ==
    [system_id |-> c.system_id, process_id |-> c.process_id,
     run_id |-> c.run_id, exit_reason |-> reason,
     _actor |-> "runtime", _source |-> source, _span_id |-> span_id]

(* projects/p00-agent-os-mvp/src/main.py, lines 205-221: the main program *)
(* appends system.shutdown itself.                                         *)
P00Shutdown ==
    /\ pc = "running"
    /\ handlers = <<>>
    /\ shutdown_calls < MaxShutdownCalls
    /\ files' = append_event(files, "system.shutdown", "system", ctx.run_id,
                    hook_payload(ctx, "normal", "p00-agent-os-mvp", uuid4(uuid_next)),
                    Absent, Absent, actor_var, now)
    /\ shutdown_calls' = shutdown_calls + 1
    /\ uuid_next' = uuid_next + 1
    /\ now' = now + 1
    /\ UNCHANGED <<has_store, identity_file, pc, ctx, ledger_path,
                   process_context, actor_var, hooks_installed, emitted,
                   handlers, n_boots, signals_sent>>
    /\ UNCHANGED tool_vars

(* install_lifecycle_hooks(ctx, source): atexit and SIGINT/SIGTERM handlers. *)
InstallHooks ==
    /\ pc = "running"
    /\ handlers = <<>>
    /\ ~hooks_installed
    /\ hooks_installed' = TRUE
    /\ emitted' = FALSE
    /\ UNCHANGED <<files, has_store, identity_file, pc, ctx, ledger_path,
                   process_context, actor_var, handlers, n_boots,
                   shutdown_calls, signals_sent, uuid_next, now>>
    /\ UNCHANGED tool_vars

(* A frame of _emit_shutdown(reason): about to run line 44, 46 or 47-61. *)
Frame(at, reason) == [at |-> at, reason |-> reason]

Top == handlers[Len(handlers)]

Return == SubSeq(handlers, 1, Len(handlers) - 1)

(* SIGINT or SIGTERM is delivered: _handle runs on top of whatever runs. *)
Signal(reason) ==
    /\ pc \in {"running", "exiting"}
    /\ hooks_installed
    /\ signals_sent < MaxSignals
    /\ handlers' = Append(handlers, Frame("check", reason))
    /\ signals_sent' = signals_sent + 1
    /\ UNCHANGED <<files, has_store, identity_file, pc, ctx, ledger_path,
                   process_context, actor_var, hooks_installed, emitted,
                   n_boots, shutdown_calls, uuid_next, now>>
    /\ UNCHANGED tool_vars

(* _emit_shutdown, lines 44-45: if emitted["done"]: return *)
EmitShutdownCheck ==
    /\ handlers /= <<>>
    /\ Top.at = "check"
    /\ handlers' = IF emitted THEN Return
                   ELSE [handlers EXCEPT ![Len(handlers)].at = "set"]
    /\ UNCHANGED <<files, has_store, identity_file, pc, ctx, ledger_path,
                   process_context, actor_var, hooks_installed, emitted,
                   n_boots, shutdown_calls, signals_sent, uuid_next, now>>
    /\ UNCHANGED tool_vars

(* _emit_shutdown, line 46: emitted["done"] = True *)
EmitShutdownSet ==
    /\ handlers /= <<>>
    /\ Top.at = "set"
    /\ emitted' = TRUE
    /\ handlers' = [handlers EXCEPT ![Len(handlers)].at = "append"]
    /\ UNCHANGED <<files, has_store, identity_file, pc, ctx, ledger_path,
                   process_context, actor_var, hooks_installed, n_boots,
                   shutdown_calls, signals_sent, uuid_next, now>>
    /\ UNCHANGED tool_vars

(* _emit_shutdown, lines 47-61: append_event(system.shutdown) and return. *)
EmitShutdownAppend ==
    /\ handlers /= <<>>
    /\ Top.at = "append"
    /\ files' = append_event(files, "system.shutdown", "system", ctx.run_id,
                    hook_payload(ctx, Top.reason, "p00-agent-os-mvp", uuid4(uuid_next)),
                    Absent, Absent, actor_var, now)
    /\ handlers' = Return
    /\ uuid_next' = uuid_next + 1
    /\ now' = now + 1
    /\ UNCHANGED <<has_store, identity_file, pc, ctx, ledger_path,
                   process_context, actor_var, hooks_installed, emitted,
                   n_boots, shutdown_calls, signals_sent>>
    /\ UNCHANGED tool_vars

(* The main program ends (return or uncaught exception): the interpreter *)
(* runs the atexit callbacks, here _atexit if the hooks are installed.   *)
Exit ==
    /\ pc = "running"
    /\ handlers = <<>>
    /\ pc' = "exiting"
    /\ handlers' = IF hooks_installed THEN <<Frame("check", "atexit")>> ELSE <<>>
    /\ UNCHANGED <<files, has_store, identity_file, ctx, ledger_path,
                   process_context, actor_var, hooks_installed, emitted,
                   n_boots, shutdown_calls, signals_sent, uuid_next, now>>
    /\ UNCHANGED tool_vars

(* The state of a process that is gone: its globals and closures with it. *)
ProcessGone ==
    /\ pc' = "idle"
    /\ ctx' = NoCtx
    /\ process_context' = NoProcessContext
    /\ actor_var' = Absent
    /\ hooks_installed' = FALSE
    /\ emitted' = FALSE
    /\ handlers' = <<>>
    /\ UNCHANGED <<files, has_store, identity_file, ledger_path, n_boots,
                   shutdown_calls, signals_sent, uuid_next, now>>
    /\ UNCHANGED tool_vars

(* The atexit callbacks have returned: the process is gone. *)
ProcessEnd ==
    /\ pc = "exiting"
    /\ handlers = <<>>
    /\ ProcessGone

(* A hard kill (SIGKILL, power loss) at any point: no callback runs. *)
Crash ==
    /\ pc \in {"running", "exiting"}
    /\ ProcessGone

----------------------------------------------------------------------------
(* scripts/replay_runner.py *)

(* Event types in the order Python compares the strings. *)
TypeOrder == <<
    "agent.reply", "session.end", "session.start", "system.boot",
    "system.shutdown", "tool.call", "tool.error", "tool.result",
    "user.message" >>

TypeRank(t) == CHOOSE i \in DOMAIN TypeOrder : TypeOrder[i] = t

(* parse_event(row): the Event of a parsed line. *)
parse_event(row) ==
    LET payload == PayloadOf(row)
    IN  [event_type     |-> IF "event_type" \in DOMAIN row THEN row["event_type"] ELSE "",
         ts             |-> IF "ts" \in DOMAIN row THEN row["ts"] ELSE "",
         session_id     |-> IF "session_id" \in DOMAIN row THEN row["session_id"] ELSE "",
         trace_id       |-> IF "trace_id" \in DOMAIN row THEN row["trace_id"] ELSE "",
         payload        |-> payload,
         payload_hash   |-> IF "payload_hash" \in DOMAIN row THEN row["payload_hash"] ELSE "",
         span_id        |-> IF Truthy(Get(payload, "_span_id"))
                            THEN payload["_span_id"] ELSE None,
         parent_span_id |-> IF Truthy(Get(payload, "_parent_span_id"))
                            THEN payload["_parent_span_id"] ELSE None,
         actor          |-> IF Truthy(Get(payload, "_actor"))
                            THEN payload["_actor"] ELSE None]

(* verify_payload_hash(e): Absent, or Some(the mismatch message). *)
verify_payload_hash(e) ==
    LET calc == sha256_hex(canonical_json(e.payload))
    IN  IF calc /= e.payload_hash
        THEN Some(<<"payload_hash mismatch", e.payload_hash, calc, e.event_type>>)
        ELSE Absent

(* The sort key (ev.ts, ev.event_type) and list.sort(key=...), a stable sort. *)
KeyLess(a, b) ==
    \/ a.ts < b.ts
    \/ a.ts = b.ts /\ TypeRank(a.event_type) < TypeRank(b.event_type)

RECURSIVE sort_by_key(_)
sort_by_key(evs) ==
    IF evs = <<>> THEN <<>>
    ELSE LET front == sort_by_key(SubSeq(evs, 1, Len(evs) - 1))
             last  == evs[Len(evs)]
             k     == Cardinality({i \in DOMAIN front : ~KeyLess(last, front[i])})
         IN  SubSeq(front, 1, k) \o <<last>> \o SubSeq(front, k + 1, Len(front))

SpanIdsOf(evs) == [i \in 1..Len(evs) |-> evs[i].span_id]

Range(seq) == {seq[i] : i \in DOMAIN seq}

(* build_span_index, lines 70-73: span2event as the events kept, in the *)
(* insertion order of the dict (the first event of each span id).       *)
RECURSIVE span2event_of(_)
span2event_of(events) ==
    IF events = <<>> THEN <<>>
    ELSE LET front == span2event_of(SubSeq(events, 1, Len(events) - 1))
             e     == events[Len(events)]
         IN  IF Truthy(e.span_id) /\ \A i \in DOMAIN front : front[i].span_id /= e.span_id
             THEN Append(front, e)
             ELSE front

Lookup(span2event, sid) ==
    span2event[CHOOSE i \in DOMAIN span2event : span2event[i].span_id = sid]

(* build_span_index, lines 79-88: where each span of span2event goes. *)
span_is_root(span2event, ev) ==
    \/ ev.parent_span_id = None
    \/ ev.parent_span_id \notin Range(SpanIdsOf(span2event))

span_is_orphan(span2event, ev) ==
    /\ ev.parent_span_id /= None
    /\ ev.parent_span_id \notin Range(SpanIdsOf(span2event))

span_is_child_after_parent(span2event, ev, pid) ==
    /\ ev.parent_span_id = pid
    /\ pid \in Range(SpanIdsOf(span2event))
    /\ Lookup(span2event, pid).ts <= ev.ts

span_is_child(span2event, ev, pid) ==
    /\ ev.parent_span_id = pid
    /\ pid \in Range(SpanIdsOf(span2event))

(* build_span_index(events): span2event, children, roots, orphans. *)
build_span_index(events) ==
    LET span2event == span2event_of(events)
        parents == {span2event[i].parent_span_id : i \in DOMAIN span2event}
                        \cap Range(SpanIdsOf(span2event))
    IN  [span2event |-> span2event,
         children   |-> [pid \in parents |->
                            SpanIdsOf(sort_by_key(SelectSeq(span2event,
                                LAMBDA ev : span_is_child(span2event, ev, pid))))],
         roots      |-> SpanIdsOf(sort_by_key(SelectSeq(span2event,
                                LAMBDA ev : span_is_root(span2event, ev)))),
         orphans    |-> SpanIdsOf(SelectSeq(span2event,
                                LAMBDA ev : span_is_orphan(span2event, ev)))]

(* children.get(sid, []) *)
children_of(children, sid) == IF sid \in DOMAIN children THEN children[sid] ELSE <<>>

(* detect_cycle: dfs(sid) with the visited and stack sets it updates; the *)
(* result is [found, visited].                                            *)
RECURSIVE dfs(_, _, _, _)
RECURSIVE dfs_each(_, _, _, _, _)
dfs(children, sid, visited, stack) ==
    IF sid \in stack THEN [found |-> TRUE, visited |-> visited]
    ELSE IF sid \in visited THEN [found |-> FALSE, visited |-> visited]
    ELSE dfs_each(children, children_of(children, sid), 1,
                  visited \cup {sid}, stack \cup {sid})

(* for c in ...: if dfs(c): return True; any(dfs(r) for r in roots) *)
dfs_each(children, sids, i, visited, stack) ==
    IF i > Len(sids) THEN [found |-> FALSE, visited |-> visited]
    ELSE LET r == dfs(children, sids[i], visited, stack)
         IN  IF r.found THEN r
             ELSE dfs_each(children, sids, i + 1, r.visited, stack)

detect_cycle(children, roots) == dfs_each(children, roots, 1, {}, {}).found

(* _walk_tree: the spans visited by walk(root, 0), each with its depth. *)
RECURSIVE walk(_, _, _)
RECURSIVE walk_each(_, _, _, _)
walk(children, sid, depth) ==
    <<[span_id |-> sid, depth |-> depth]>>
        \o walk_each(children, children_of(children, sid), 1, depth + 1)

walk_each(children, sids, i, depth) ==
    IF i > Len(sids) THEN <<>>
    ELSE walk(children, sids[i], depth) \o walk_each(children, sids, i + 1, depth)

(* _walk_tree, lines 125-143: the lines appended for one visited span. *)
node_lines(ev, depth) ==
    LET head == [indent |-> depth,
                 text |-> <<"-", ev.event_type, "actor=", PyOr(ev.actor, "unknown"),
                            "ts=", ev.ts>>]
        p == ev.payload
        detail ==
            IF ev.event_type = "user.message"
            THEN <<[indent |-> depth, text |-> <<"user:", PyOr(Get(p, "text"), "")>>]>>
            ELSE IF ev.event_type = "agent.reply"
            THEN <<[indent |-> depth, text |-> <<"agent:", PyOr(Get(p, "reply"), "")>>]>>
                 \o (IF "tool_calls" \in DOMAIN p /\ p["tool_calls"].is_list
                     THEN <<[indent |-> depth,
                             text |-> <<"tool_calls_declared:", p["tool_calls"].len>>]>>
                     ELSE <<>>)
            ELSE IF ev.event_type \in {"tool.call", "tool.result", "tool.error"}
            THEN <<[indent |-> depth,
                    text |-> <<ev.event_type, Get(p, "tool_name")>>]>>
            ELSE <<>>
    IN  <<head>> \o detail

RECURSIVE flatten_lines(_, _, _)
flatten_lines(span2event, visits, i) ==
    IF i > Len(visits) THEN <<>>
    ELSE node_lines(Lookup(span2event, visits[i].span_id), visits[i].depth)
            \o flatten_lines(span2event, visits, i + 1)

walk_tree(span2event, children, root) ==
    flatten_lines(span2event, walk(children, root, 0), 1)

(* _count_declared_tool_calls(events) *)
RECURSIVE count_declared_tool_calls(_)
RECURSIVE count_replies_with_tool_calls(_)
count_replies_with_tool_calls(events) ==
    IF events = <<>> THEN 0
    ELSE LET e == Head(events)
             n == IF /\ e.event_type = "agent.reply"
                     /\ "tool_calls" \in DOMAIN e.payload
                     /\ e.payload["tool_calls"].is_list
                  THEN 1 ELSE 0
         IN  n + count_replies_with_tool_calls(Tail(events))

count_declared_tool_calls(events) ==
    IF events = <<>> THEN 0
    ELSE LET e == Head(events)
             n == IF /\ e.event_type = "agent.reply"
                     /\ "tool_calls" \in DOMAIN e.payload
                     /\ e.payload["tool_calls"].is_list
                  THEN e.payload["tool_calls"].len ELSE 0
         IN  n + count_declared_tool_calls(Tail(events))

(* A selection without the preference for session.start. *)
find_root_span_first_root(span2event, roots) ==
    IF roots /= <<>> THEN roots[1] ELSE None

(* _find_root_span(span2event, roots) *)
find_root_span(span2event, roots) ==
    LET starts == {i \in DOMAIN roots :
                    Lookup(span2event, roots[i]).event_type = "session.start"}
    IN  IF starts /= {} THEN roots[CHOOSE i \in starts : \A j \in starts : i <= j]
        ELSE IF roots /= <<>> THEN roots[1] ELSE None

RECURSIVE Flatten(_)
Flatten(seqs) == IF seqs = <<>> THEN <<>> ELSE Head(seqs) \o Flatten(Tail(seqs))

HasError(errors, err) == \E i \in DOMAIN errors : errors[i] = err

hash_messages_none(events) == <<>>

(* replay_and_validate, lines 180-186: the hash messages, in event order. *)
hash_messages(events) ==
    Flatten([i \in 1..Len(events) |-> verify_payload_hash(events[i])])

(* replay_and_validate, lines 217-223: the first session.end of span2event. *)
session_end_of(span2event) ==
    LET ends == {i \in DOMAIN span2event : span2event[i].event_type = "session.end"}
    IN  IF ends = {} THEN Absent
        ELSE Some(span2event[CHOOSE i \in ends : \A j \in ends : i <= j])

(* replay_and_validate, lines 237-254: the errors one span adds. *)
tool_chain_errors_error_child_only(span2event, children, ev) ==
    LET kids == children_of(children, ev.span_id)
    IN  IF /\ ev.event_type = "tool.call"
           /\ ~\E k \in DOMAIN kids :
                    Lookup(span2event, kids[k]).event_type = "tool.error"
        THEN << <<"tool.call missing tool.result/tool.error child", ev.span_id>> >>
        ELSE <<>>

(* A check that is content with a child of any type. *)
tool_chain_errors_any_child(span2event, children, ev) ==
    LET kids == children_of(children, ev.span_id)
    IN  IF ev.event_type = "tool.call" /\ kids = <<>>
        THEN << <<"tool.call missing tool.result/tool.error child", ev.span_id>> >>
        ELSE <<>>

tool_chain_errors(span2event, children, ev) ==
    LET kids == children_of(children, ev.span_id)
        pid  == ev.parent_span_id
        parent_is_not_call ==
            /\ Truthy(pid)
            /\ pid \in Range(SpanIdsOf(span2event))
            /\ Lookup(span2event, pid).event_type /= "tool.call"
    IN  IF ev.event_type = "tool.call"
        THEN IF \E k \in DOMAIN kids :
                    Lookup(span2event, kids[k]).event_type \in {"tool.result", "tool.error"}
             THEN <<>>
             ELSE << <<"tool.call missing tool.result/tool.error child", ev.span_id>> >>
        ELSE IF ev.event_type = "tool.result" /\ parent_is_not_call
        THEN << <<"tool.result parent must be tool.call">> >>
        ELSE IF ev.event_type = "tool.error" /\ parent_is_not_call
        THEN << <<"tool.error parent must be tool.call">> >>
        ELSE <<>>

CountOf(span2event, event_type) ==
    Cardinality({i \in DOMAIN span2event : span2event[i].event_type = event_type})

(* replay_and_validate(events, strict): the report dict it builds, the *)
(* index it works on, and whether line 291 raises SystemExit.          *)
replay_and_validate(events, strict) ==
    LET hashes     == hash_messages(events)
        index      == build_span_index(events)
        span2event == index.span2event
        children   == index.children
        roots      == index.roots
        orphans    == index.orphans
        cycle      == detect_cycle(children, roots)
        root_sid   == find_root_span(span2event, roots)
        has_start  == \E i \in DOMAIN events : events[i].event_type = "session.start"
        has_end    == \E i \in DOMAIN events : events[i].event_type = "session.end"
        end_ev     == session_end_of(span2event)
        end_ok     == end_ev /= Absent /\ end_ev[1].parent_span_id = root_sid
        declared   == count_declared_tool_calls(events)
        observed   == CountOf(span2event, "tool.call")
        errors     ==
            (IF strict THEN hashes ELSE <<>>)
            \o (IF cycle THEN << <<"cycle detected in span graph">> >> ELSE <<>>)
            \o (IF orphans /= <<>>
                THEN << <<"orphan spans detected", Len(orphans)>> >> ELSE <<>>)
            \o (IF ~Truthy(root_sid)
                THEN << <<"missing root span (session.start)">> >> ELSE <<>>)
            \o (IF ~has_start THEN << <<"missing session.start">> >> ELSE <<>>)
            \o (IF ~has_end THEN << <<"missing session.end">> >> ELSE <<>>)
            \o (IF end_ev /= Absent /\ ~end_ok
                THEN << <<"session.end parent != root_span_id">> >> ELSE <<>>)
            \o Flatten([i \in 1..Len(span2event) |->
                            tool_chain_errors(span2event, children, span2event[i])])
            \o (IF declared /= observed
                THEN << <<"tool_call accounting mismatch", declared, observed>> >>
                ELSE <<>>)
    IN  [session_id  |-> IF events /= <<>> THEN events[1].session_id ELSE None,
         event_count |-> Len(events),
         warnings    |-> IF strict THEN <<>> ELSE hashes,
         errors      |-> errors,
         validations |->
            [graph |->
                [span_count     |-> Len(span2event),
                 root_count     |-> Len(roots),
                 orphan_count   |-> Len(orphans),
                 cycle_detected |-> cycle],
             required_events |-> [session_start |-> has_start, session_end |-> has_end],
             session_end_parent_root |->
                [ok                         |-> end_ok,
                 root_span_id               |-> root_sid,
                 session_end_span_id        |->
                    IF end_ev /= Absent THEN end_ev[1].span_id ELSE None,
                 session_end_parent_span_id |->
                    IF end_ev /= Absent THEN end_ev[1].parent_span_id ELSE None],
             tool_chain |->
                [tool_calls_observed   |-> observed,
                 tool_results_observed |-> CountOf(span2event, "tool.result"),
                 tool_errors_observed  |-> CountOf(span2event, "tool.error")],
             tool_call_accounting |->
                [declared_tool_calls       |-> declared,
                 observed_tool_call_events |-> observed,
                 ok                        |-> declared = observed]],
         replay_lines |-> IF Truthy(root_sid)
                          THEN walk_tree(span2event, children, root_sid) ELSE <<>>,
         index        |-> index,
         raised       |-> strict /\ errors /= <<>>]

(* read_jsonl(path): the parsed rows of the file, oldest first. *)
read_jsonl(fs, path) == [i \in 1..Len(fs[path]) |-> json_loads(fs[path][i])]

(* Session ids in the order Python compares the strings. *)
SessionOrder == << "s1", "s2", "system", "unknown" >>

(* main, lines 311-315: the events of one session, in file order. *)
session_events(events_all, sid) == SelectSeq(events_all, LAMBDA e : e.session_id = sid)

(* main, lines 320-324: the reports of the sessions in sorted order, up to *)
(* and including the first one that raises.                               *)
RECURSIVE replay_sessions(_, _, _)
replay_sessions(events_all, sids, strict) ==
    IF sids = <<>> THEN <<>>
    ELSE LET r == replay_and_validate(
                    sort_by_key(session_events(events_all, Head(sids))), strict)
         IN  IF r.raised THEN <<r>>
             ELSE <<r>> \o replay_sessions(events_all, Tail(sids), strict)

(* main(): --session is Absent or Some(sid), --strict a flag.  The outcome *)
(* is the rows read, the reports and whether the run ended in SystemExit.  *)
replay_main(fs, path, session, strict) ==
    LET rows       == read_jsonl(fs, path)
        events_all == [i \in 1..Len(rows) |-> parse_event(rows[i])]
        sids       == SelectSeq(SessionOrder, LAMBDA s :
                        /\ session = Absent \/ session = Some(s)
                        /\ \E i \in DOMAIN events_all : events_all[i].session_id = s)
        reports    == replay_sessions(events_all, sids, strict)
    IN  [ran     |-> TRUE,
         strict  |-> strict,
         rows    |-> rows,
         reports |-> reports,
         exited  |-> sids = <<>> \/ reports[Len(reports)].raised]

----------------------------------------------------------------------------
(* scripts/render_trace_tree.py *)

(* _shorten(s, n): every string of the model is shorter than n and has no *)
(* newline, so it comes back unchanged.                                    *)
shorten(s) == s

(* _extract_node(row): Absent for a row without span id, or Some(Node). *)
extract_node(row) ==
    LET payload == PayloadOf(row)
    IN  IF ~Truthy(Get(payload, "_span_id")) THEN Absent
        ELSE Some([span_id        |-> payload["_span_id"],
                   parent_span_id |-> IF Truthy(Get(payload, "_parent_span_id"))
                                      THEN payload["_parent_span_id"] ELSE None,
                   event_type     |-> IF "event_type" \in DOMAIN row
                                      THEN row["event_type"] ELSE "",
                   actor          |-> IF "_actor" \in DOMAIN payload
                                      THEN payload["_actor"] ELSE "unknown",
                   ts             |-> IF "ts" \in DOMAIN row THEN row["ts"] ELSE "",
                   session_id     |-> IF "session_id" \in DOMAIN row
                                      THEN row["session_id"] ELSE "",
                   trace_id       |-> IF "trace_id" \in DOMAIN row
                                      THEN row["trace_id"] ELSE "",
                   payload        |-> payload])

(* id2node = {n.span_id: n for n in nodes}: the last node of each span id. *)
id2node_of(nodes, sid) ==
    nodes[CHOOSE i \in DOMAIN nodes :
            /\ nodes[i].span_id = sid
            /\ \A j \in DOMAIN nodes : nodes[j].span_id = sid => j <= i]

NodeIds(nodes) == {nodes[i].span_id : i \in DOMAIN nodes}

(* The sort key (id2node[sid].ts, id2node[sid].event_type) of a span id. *)
sort_ids_by_node_key(nodes, sids) ==
    SpanIdsOf(sort_by_key([i \in 1..Len(sids) |-> id2node_of(nodes, sids[i])]))

(* _build_tree(nodes): children, roots, orphans over every node of the list. *)
build_tree(nodes) ==
    LET ids     == NodeIds(nodes)
        is_root(n)   == n.parent_span_id = None \/ n.parent_span_id \notin ids
        is_orphan(n) == n.parent_span_id /= None /\ n.parent_span_id \notin ids
        parents == {nodes[i].parent_span_id : i \in DOMAIN nodes} \cap ids
    IN  [children |-> [pid \in parents |->
                        sort_ids_by_node_key(nodes,
                            SpanIdsOf(SelectSeq(nodes, LAMBDA n : n.parent_span_id = pid)))],
         roots    |-> sort_ids_by_node_key(nodes, SpanIdsOf(SelectSeq(nodes, is_root))),
         orphans  |-> SpanIdsOf(SelectSeq(nodes, is_orphan))]

(* _fmt_node(n, show_payload): what the line of a node shows. *)
fmt_node(n, show_payload) ==
    LET p == n.payload
        trimmed == Pop(Pop(Pop(Pop(p, "_source"), "_actor"), "_span_id"), "_parent_span_id")
    IN  [event_type |-> n.event_type,
         actor      |-> n.actor,
         span       |-> n.span_id,
         parent     |-> n.parent_span_id,
         ts         |-> n.ts,
         summary    |-> IF n.event_type = "user.message" /\ "text" \in DOMAIN p
                        THEN shorten(p["text"])
                        ELSE IF n.event_type = "agent.reply" /\ "reply" \in DOMAIN p
                        THEN shorten(p["reply"])
                        ELSE IF n.event_type \notin {"user.message", "agent.reply"}
                                /\ "message" \in DOMAIN p
                        THEN shorten(p["message"])
                        ELSE "",
         payload    |-> IF show_payload THEN trimmed ELSE EmptyDict]

(* _detect_cycle(id2node, children, roots) *)
render_detect_cycle(children, roots) == dfs_each(children, roots, 1, {}, {}).found

(* _print_tree: the lines printed for root and below.  A path longer than *)
(* the nodes repeats a span and never ends; Python ends it by raising     *)
(* RecursionError, the model as soon as the path is that long.            *)
RECURSIVE print_tree(_, _, _, _, _, _)
RECURSIVE print_kids(_, _, _, _, _, _, _)
(* A _print_tree that compares _depth > max_depth: one level too many. *)
print_tree_one_deeper(nodes, children, root, show_payload, max_depth, depth) ==
    IF depth > Len(nodes) THEN <<[kind |-> "RecursionError", depth |-> depth]>>
    ELSE <<[kind  |-> "node", depth |-> depth,
            shown |-> fmt_node(id2node_of(nodes, root), show_payload)]>>
         \o (IF max_depth /= Absent /\ depth > max_depth[1]
             THEN IF children_of(children, root) /= <<>>
                  THEN <<[kind |-> "max depth reached", depth |-> depth + 1]>>
                  ELSE <<>>
             ELSE print_kids(nodes, children, children_of(children, root), 1,
                             show_payload, max_depth, depth + 1))

print_tree(nodes, children, root, show_payload, max_depth, depth) ==
    IF depth > Len(nodes) THEN <<[kind |-> "RecursionError", depth |-> depth]>>
    ELSE <<[kind  |-> "node", depth |-> depth,
            shown |-> fmt_node(id2node_of(nodes, root), show_payload)]>>
         \o (IF max_depth /= Absent /\ depth >= max_depth[1]
             THEN IF children_of(children, root) /= <<>>
                  THEN <<[kind |-> "max depth reached", depth |-> depth + 1]>>
                  ELSE <<>>
             ELSE print_kids(nodes, children, children_of(children, root), 1,
                             show_payload, max_depth, depth + 1))

print_kids(nodes, children, kids, i, show_payload, max_depth, depth) ==
    IF i > Len(kids) THEN <<>>
    ELSE print_tree(nodes, children, kids[i], show_payload, max_depth, depth)
         \o print_kids(nodes, children, kids, i + 1, show_payload, max_depth, depth)

(* What is printed until an exception ends the program. *)
RECURSIVE until_raise(_)
until_raise(lines) ==
    IF lines = <<>> THEN <<>>
    ELSE IF Head(lines).kind = "RecursionError" THEN <<Head(lines)>>
    ELSE <<Head(lines)>> \o until_raise(Tail(lines))

Raised(lines) == \E i \in DOMAIN lines : lines[i].kind = "RecursionError"

(* main, lines 213-240: the output for one (session_id, trace_id) group. *)
render_group(nodes_of_group, show_payload, max_depth) ==
    LET nodes == sort_by_key(nodes_of_group)
        tree  == build_tree(nodes)
        lines == until_raise(Flatten([i \in 1..Len(tree.roots) |->
                    <<[kind |-> "root", depth |-> 0, number |-> i]>>
                    \o print_tree(nodes, tree.children, tree.roots[i],
                                  show_payload, max_depth, 0)]))
    IN  [session_id |-> nodes[1].session_id,
         trace_id   |-> nodes[1].trace_id,
         events     |-> Len(nodes),
         roots      |-> tree.roots,
         orphans    |-> tree.orphans,
         cycle      |-> render_detect_cycle(tree.children, tree.roots),
         lines      |-> lines,
         raised     |-> Raised(lines)]

(* Trace ids in the order Python compares the strings. *)
TraceOrder == RunIdPool \o << "trace_1", "unknown" >>

(* The (session_id, trace_id) keys of the groups, sorted. *)
group_keys(nodes_all, session, trace) ==
    LET wanted(sid, tid) ==
            /\ session = Absent \/ session = Some(sid)
            /\ trace = Absent \/ trace = Some(tid)
            /\ \E i \in DOMAIN nodes_all :
                nodes_all[i].session_id = sid /\ nodes_all[i].trace_id = tid
    IN  Flatten([i \in 1..Len(SessionOrder) |->
            [j \in 1..Len(SelectSeq(TraceOrder, LAMBDA tid : wanted(SessionOrder[i], tid))) |->
                <<SessionOrder[i],
                  SelectSeq(TraceOrder, LAMBDA tid : wanted(SessionOrder[i], tid))[j]>>]])

RECURSIVE render_groups(_, _, _, _)
render_groups(nodes_all, keys, show_payload, max_depth) ==
    IF keys = <<>> THEN <<>>
    ELSE LET g == render_group(
                    SelectSeq(nodes_all, LAMBDA n :
                        n.session_id = Head(keys)[1] /\ n.trace_id = Head(keys)[2]),
                    show_payload, max_depth)
         IN  IF g.raised THEN <<g>>
             ELSE <<g>> \o render_groups(nodes_all, Tail(keys), show_payload, max_depth)

(* main(): --session and --trace are Absent or Some(id), --no-payload a   *)
(* flag, --max-depth Absent or Some(n).                                   *)
render_main(fs, path, session, trace, no_payload, max_depth) ==
    LET rows      == read_jsonl(fs, path)
        nodes_all == Flatten([i \in 1..Len(rows) |-> extract_node(rows[i])])
        keys      == group_keys(nodes_all, session, trace)
        groups    == render_groups(nodes_all, keys, ~no_payload, max_depth)
    IN  [ran    |-> TRUE,
         rows   |-> rows,
         groups |-> groups,
         exited |-> keys = <<>>,
         raised |-> groups /= <<>> /\ groups[Len(groups)].raised]

----------------------------------------------------------------------------
(* scripts/verify_events_ledger.py *)

FORBIDDEN_PAYLOAD_KEYS == {"trace_id", "span_id", "parent_span_id"}

(* Every ts of the model is a text that utc_ts_iso wrote: a str that *)
(* matches TS_RFC3339_MS_Z.                                          *)
is_v1(ev) ==
    /\ Get(ev, "schema_version") = "1.0"
    /\ "payload_hash" \in DOMAIN ev
    /\ "trace_id" \in DOMAIN ev
    /\ "ts" \in DOMAIN ev

REQUIRED_FIELDS ==
    << "schema_version", "event_type", "session_id", "trace_id", "ts", "payload",
       "payload_hash" >>

RESERVED_META == << "_actor", "_source", "_span_id", "_parent_span_id" >>

NonEmptyStr(v) == v /= None /\ v /= ""

(* main, lines 63-99, for one v1 event: Absent, or Some(message of fail). *)
v1_failure(ev, lineno) ==
    LET missing == SelectSeq(REQUIRED_FIELDS, LAMBDA k : k \notin DOMAIN ev)
        meta    == ev["payload"]
        badmeta == SelectSeq(RESERVED_META,
                             LAMBDA k : k \in DOMAIN meta /\ ~NonEmptyStr(meta[k]))
    IN  IF missing /= <<>>
        THEN Some(<<lineno, "missing required field", Head(missing)>>)
        ELSE IF ev["schema_version"] /= "1.0"
        THEN Some(<<lineno, "schema_version != 1.0">>)
        ELSE IF ev["payload_hash"] /= sha256_hex(canonical_json(ev["payload"]))
        THEN Some(<<lineno, "payload_hash mismatch">>)
        ELSE IF FORBIDDEN_PAYLOAD_KEYS \cap DOMAIN meta /= {}
        THEN Some(<<lineno, "payload contains forbidden duplicate meta keys">>)
        ELSE IF badmeta /= <<>>
        THEN Some(<<lineno, "must be non-empty string", Head(badmeta)>>)
        ELSE IF "_parent_span_id" \in DOMAIN meta /\ "_span_id" \notin DOMAIN meta
        THEN Some(<<lineno, "_parent_span_id present => _span_id must be present">>)
        ELSE IF "tool_calls" \in DOMAIN meta /\ ~meta["tool_calls"].is_list
        THEN Some(<<lineno, "tool_calls must be list when present">>)
        ELSE Absent

(* The first failure of a loop that returns at the first one. *)
RECURSIVE first_failure(_)
first_failure(fails) ==
    IF fails = <<>> THEN Absent
    ELSE IF Head(fails) /= Absent THEN Head(fails)
    ELSE first_failure(Tail(fails))

SESS_TYPES == {"session.start", "user.message", "agent.reply", "session.end"}

(* The keys of by_session, in the order a dict keeps them. *)
RECURSIVE session_keys(_)
session_keys(evs) ==
    IF evs = <<>> THEN <<>>
    ELSE LET front == session_keys(SubSeq(evs, 1, Len(evs) - 1))
             sid   == evs[Len(evs)]["session_id"]
         IN  IF \E i \in DOMAIN front : front[i] = sid THEN front
             ELSE Append(front, sid)

(* main, lines 121-132, for one session: types are its event types in *)
(* file order.                                                        *)
session_failure(sid, types) ==
    LET starts == {i \in DOMAIN types : types[i] = "session.start"}
        ends   == {i \in DOMAIN types : types[i] = "session.end"}
    IN  IF Cardinality(starts) /= 1
        THEN Some(<<"Session", sid, "must have exactly one session.start">>)
        ELSE IF Cardinality(ends) > 1
        THEN Some(<<"Session", sid, "must have at most one session.end">>)
        ELSE IF types /= <<>> /\ types[1] /= "session.start"
        THEN Some(<<"Session", sid, "first must be session.start">>)
        ELSE IF \E i \in ends : \E j \in DOMAIN types :
                    /\ j > i
                    /\ \A k \in ends : i <= k
                    /\ types[j] \in {"user.message", "agent.reply"}
        THEN Some(<<"Session", sid, "messages after session.end">>)
        ELSE Absent

(* main(): the exit code and the message of fail, if any. *)
verify_main(fs, path, fail_on_nonv1) ==
    LET events == read_jsonl(fs, path)
        lines  == [i \in 1..Len(events) |-> i]
        v1     == SelectSeq(lines, LAMBDA i : is_v1(events[i]))
        nonv1  == SelectSeq(lines, LAMBDA i : ~is_v1(events[i]))
        strict == first_failure([k \in 1..Len(v1) |-> v1_failure(events[v1[k]], v1[k])])
        sess   == SelectSeq([k \in 1..Len(v1) |-> events[v1[k]]],
                            LAMBDA e : Get(e, "event_type") \in SESS_TYPES)
        sids   == session_keys(sess)
        types(sid) ==
            LET seq == SelectSeq(sess, LAMBDA e : e["session_id"] = sid)
            IN  [k \in 1..Len(seq) |-> seq[k]["event_type"]]
        sanity == first_failure([k \in 1..Len(sids) |->
                                    session_failure(sids[k], types(sids[k]))])
        failed == IF strict /= Absent THEN strict
                  ELSE IF nonv1 /= <<>> /\ fail_on_nonv1
                  THEN Some(<<"Non-v1 events found and --fail-on-nonv1 is set.">>)
                  ELSE sanity
    IN  [ran     |-> TRUE,
         total   |-> Len(events),
         v1      |-> Len(v1),
         nonv1   |-> Len(nonv1),
         code    |-> IF failed = Absent THEN 0 ELSE 2,
         message |-> failed]

NoReport == [ran |-> FALSE]

(* No call has been made yet. *)
NoOutcome == [call |-> None]

(* TraceContext(): an empty _stack; no call made, nothing returned. *)
NewTraceContext == [stack |-> <<>>, calls |-> <<>>, returned |-> <<>>]

(* GovernanceBus(...): no override on file, nothing received, logged, *)
(* forwarded or answered yet.                                         *)
NewGovernance ==
    [overrides |-> <<>>, requests |-> <<>>, decisions |-> <<>>,
     forwarded |-> <<>>, responses |-> <<>>, trace |-> <<>>]

(* memory_store.json holds nothing yet; no P08MemoryGate has been made. *)
NewMemoryGate ==
    [store |-> EmptyDict, made |-> FALSE, confronted |-> FALSE, saves |-> 0,
     runtime |-> [supported_schema_version |-> 0, supported_store_version |-> 0],
     write_block_reason |-> None]

(* The offline tools run over a ledger that is complete: once one of them *)
(* has run, nothing more is written and no tool runs again.               *)
ToolsIdle == ~report.ran /\ ~rendered.ran /\ ~verified.ran

----------------------------------------------------------------------------
Init ==
    /\ files = [p \in FilePaths |-> <<>>]
    /\ has_store = FALSE
    /\ identity_file \in {Absent, Some(CorruptIdentity)}
    /\ pc = "idle"
    /\ ctx = NoCtx
    /\ ledger_path \in LedgerPaths
    /\ process_context = NoProcessContext
    /\ actor_var = Absent
    /\ hooks_installed = FALSE
    /\ emitted = FALSE
    /\ handlers = <<>>
    /\ n_boots = 0
    /\ shutdown_calls = 0
    /\ signals_sent = 0
    /\ uuid_next = 1
    /\ now = 1
    /\ report = NoReport
    /\ rendered = NoReport
    /\ verified = NoReport
    /\ outcome = NoOutcome
    /\ partial = Absent
    /\ tc = NewTraceContext
    /\ gov = NewGovernance
    /\ mem = NewMemoryGate

(* Programs that boot, write memory, shut down explicitly, end or are killed. *)
Boot == boot(MaxBoots)

BootRaises == boot_raises(MaxBoots)

Next ==
    \/ Boot
    \/ BootRaises
    \/ WriteMemoryFile
    \/ \E r \in ExitReasons : Shutdown(r)
    \/ P00Shutdown
    \/ Exit
    \/ ProcessEnd
    \/ Crash

Spec == Init /\ [][Next]_vars

(* The same programs with boot() taken step by step. *)
BootInstall == boot_install(MaxBoots)

NextBootSteps ==
    \/ BootInstall
    \/ BootAppend
    \/ BootRaises
    \/ WriteMemoryFile
    \/ \E r \in ExitReasons : Shutdown(r)
    \/ P00Shutdown
    \/ Exit
    \/ ProcessEnd
    \/ Crash

SpecBootSteps == Init /\ [][NextBootSteps]_vars

(* The same programs with install_lifecycle_hooks and signal delivery. *)
HookedBoot == boot(MaxHookBoots)

HookedBootRaises == boot_raises(MaxHookBoots)

NextHooks ==
    \/ HookedBoot
    \/ HookedBootRaises
    \/ WriteMemoryFile
    \/ \E r \in ExitReasons : Shutdown(r)
    \/ P00Shutdown
    \/ InstallHooks
    \/ \E s \in Signals : Signal(s)
    \/ EmitShutdownCheck
    \/ EmitShutdownSet
    \/ EmitShutdownAppend
    \/ Exit
    \/ ProcessEnd
    \/ Crash

SpecHooks == Init /\ [][NextHooks]_vars

----------------------------------------------------------------------------
(* Clients of events.append_event that write span envelopes of one session, *)
(* and the offline run of scripts/replay_runner.py over what they wrote.    *)
MaxRows == 3

SpanIds == << "sp_1", "sp_2", "sp_3", "sp_4" >>

MissingSpan == "sp_missing"

Times == {1, 2}

SessionArgs == {Absent, Some("s1")}

(* Span ids are fresh uuids or repeat one already written: the ids a new *)
(* row can carry are those in the file and the first one not yet in it.  *)
SpansIn(fs) ==
    {Get(PayloadOf(json_loads(fs[EVENTS_FILE][i])), "_span_id") :
        i \in DOMAIN fs[EVENTS_FILE]} \ {None}

SpansToWrite(fs, max) ==
    {SpanIds[i] : i \in {j \in 1..max :
        \A k \in 1..(j - 1) : SpanIds[k] \in SpansIn(fs)}}

span_payload(span, parent) ==
    IF parent = None THEN [_span_id |-> span]
    ELSE [_span_id |-> span, _parent_span_id |-> parent]

(* append_event(event_type=..., session_id="s1", payload={_span_id, ...}, ts=...) *)
append_span(max, types) ==
    /\ ToolsIdle
    /\ Len(files[EVENTS_FILE]) < max
    /\ \E t \in types, ts \in Times :
       \E span \in SpansToWrite(files, max) :
       \E parent \in {None, MissingSpan} \cup {SpanIds[i] : i \in 1..max} :
            files' = append_event(files, t, "s1", "trace_1", span_payload(span, parent),
                                  Some(ts), Absent, actor_var, now)
    /\ UNCHANGED <<process_vars, now, tool_vars>>

(* python scripts/replay_runner.py [--session S] [--strict] *)
replay_tool(sessions) ==
    /\ ToolsIdle
    /\ \E session \in sessions, strict \in BOOLEAN :
            report' = replay_main(files, EVENTS_FILE, session, strict)
    /\ UNCHANGED <<files, process_vars, now, rendered, verified, call_vars>>

Replay == replay_tool(SessionArgs)

MaxDepthArgs == {Absent, Some(1)}

(* python scripts/render_trace_tree.py [--session S] [--no-payload] [--max-depth N] *)
render_tool(sessions, no_payloads) ==
    /\ ToolsIdle
    /\ \E session \in sessions, no_payload \in no_payloads, max_depth \in MaxDepthArgs :
            rendered' = render_main(files, EVENTS_FILE, session, Absent, no_payload,
                                    max_depth)
    /\ UNCHANGED <<files, process_vars, now, report, verified, call_vars>>

InitReplay ==
    /\ Init
    /\ identity_file = Absent
    /\ ledger_path = EVENTS_FILE

AppendSpan == append_span(MaxRows, {"session.start", "user.message"})

(* One session in the ledger and no payload detail: --session and *)
(* --no-payload change nothing.                                   *)
ReplayAll == replay_tool({Absent})

RenderAll == render_tool({Absent}, {FALSE})

NextGraph ==
    \/ AppendSpan
    \/ ReplayAll
    \/ RenderAll

SpecGraph == InitReplay /\ [][NextGraph]_vars

(* Clients that write agent.reply envelopes declaring tool calls and      *)
(* tool.call envelopes, with or without a span id.  The value of          *)
(* payload.tool_calls is modelled by what the validator reads of it:      *)
(* whether it is a list, and its length.                                  *)
ToolCallsValues ==
    {[is_list |-> TRUE, len |-> 1], [is_list |-> TRUE, len |-> 2],
     [is_list |-> FALSE, len |-> 0]}

with_span(payload, span) ==
    IF span = None THEN payload ELSE Put(payload, "_span_id", span)

(* append_event(event_type="agent.reply" | "tool.call", session_id="s1", ...) *)
append_tool_row(max) ==
    /\ ToolsIdle
    /\ Len(files[EVENTS_FILE]) < max
    /\ \E ts \in Times :
       \E span \in {None} \cup SpansToWrite(files, max) :
       \E payload \in {EmptyDict} \cup {[tool_calls |-> v] : v \in ToolCallsValues} :
       \E t \in IF payload = EmptyDict THEN {"agent.reply", "tool.call"}
                ELSE {"agent.reply"} :
            files' = append_event(files, t, "s1", "trace_1", with_span(payload, span),
                                  Some(ts), Absent, actor_var, now)
    /\ UNCHANGED <<process_vars, now, tool_vars>>

AppendToolRow == append_tool_row(MaxRows)

NextTools ==
    \/ AppendToolRow
    \/ Replay

SpecTools == InitReplay /\ [][NextTools]_vars

(* A client that writes the session of p00 main.py through append_event:  *)
(* session.start, user.message, agent.reply declaring n tool calls, then  *)
(* tool.call and tool.result for each declared call, then session.end.    *)
MaxTools == 2

(* ctx.new_span(): the span id of the k-th envelope of the session. *)
new_span(k) == UuidPool[k]

session_payload(actor, span, parent, fields) ==
    LET p == Put(Put(fields, "_actor", actor), "_span_id", span)
    IN  IF parent = None THEN p ELSE Put(p, "_parent_span_id", parent)

(* The k-th envelope (k = 0, 1, ...) of a session whose reply declares n  *)
(* tool calls; m is the number the reply about to be written declares.    *)
session_event(k, n, m) ==
    IF k = 0
    THEN [event_type |-> "session.start",
          payload |-> session_payload("runtime", new_span(1), None,
                                      [message |-> "Session started for p00 MVP"])]
    ELSE IF k = 1
    THEN [event_type |-> "user.message",
          payload |-> session_payload("user", new_span(2), new_span(1),
                                      [text |-> "Hello"])]
    ELSE IF k = 2
    THEN [event_type |-> "agent.reply",
          payload |-> session_payload("agent", new_span(3), new_span(2),
                        [reply |-> "Hi", tool_calls |-> [is_list |-> TRUE, len |-> m]])]
    ELSE IF k < 3 + 2 * n /\ (k - 3) % 2 = 0
    THEN [event_type |-> "tool.call",
          payload |-> session_payload("tool", new_span(k + 1), new_span(3),
                                      [tool_name |-> "echo", args |-> EmptyDict])]
    ELSE IF k < 3 + 2 * n
    THEN [event_type |-> "tool.result",
          payload |-> session_payload("tool", new_span(k + 1), new_span(k),
                                      [tool_name |-> "echo", result |-> "ok"])]
    ELSE [event_type |-> "session.end",
          payload |-> session_payload("runtime", new_span(k + 1), new_span(1),
                                      [message |-> "Session ended for p00 MVP"])]

write_session_event(max_tools) ==
    /\ ToolsIdle
    /\ LET rows == read_jsonl(files, EVENTS_FILE)
           k    == Len(rows)
           n    == IF k >= 3 THEN rows[3]["payload"]["tool_calls"].len ELSE 0
       IN  /\ k < 3 \/ k < 4 + 2 * n
           /\ \E ts \in Times :
              \E m \in IF k = 2 THEN 0..max_tools ELSE {0} :
                LET ev == session_event(k, n, m)
                IN  files' = append_event(files, ev.event_type, "s1", "trace_1",
                                          ev.payload, Some(ts), Absent, actor_var, now)
    /\ UNCHANGED <<process_vars, now, tool_vars>>

WriteSessionEvent == write_session_event(MaxTools)

NextSession ==
    \/ WriteSessionEvent
    \/ Replay

SpecSession == InitReplay /\ [][NextSession]_vars

(* Clients of EventWriter.emit (through append_event) with payloads that  *)
(* carry any of the forbidden, legacy and reserved keys, and tool args    *)
(* keyed by strings or by ints.                                           *)
MaxEmits == 2

MetaValues ==
    [trace_id |-> "trace_9", span_id |-> "sp_2", _span_id |-> "sp_1",
     parent_span_id |-> "sp_4", _parent_span_id |-> "sp_3"]

ArgsValues ==
    {[k \in {"2", "10"} |-> IF k = "2" THEN "x" ELSE "y"],
     [k \in {"#2", "#10"} |-> IF k = "#2" THEN "x" ELSE "y"]}

EmitPayloads ==
    LET meta == {[k \in ks |-> MetaValues[k]] : ks \in SUBSET DOMAIN MetaValues}
    IN  meta \cup {Put(m, "args", a) : m \in meta, a \in ArgsValues}

(* append_event(event_type="tool.call", session_id="s1", trace_id=..., payload=...) *)
emit_payload(max) ==
    /\ ToolsIdle
    /\ Len(files[EVENTS_FILE]) < max
    /\ \E payload \in EmitPayloads :
            files' = append_event(files, "tool.call", "s1", "trace_1", payload,
                                  Absent, Absent, actor_var, now)
    /\ now' = now + 1
    /\ UNCHANGED <<process_vars, tool_vars>>

EmitPayload == emit_payload(MaxEmits)

NextEmit ==
    \/ EmitPayload
    \/ Replay

SpecEmit == InitReplay /\ [][NextEmit]_vars

(* The session of p00 followed by one more envelope of the same session,  *)
(* a child of the root span whose payload carries args keyed by strings or *)
(* by ints; the validator runs strict or not over the result.              *)
write_note ==
    /\ ToolsIdle
    /\ LET rows == read_jsonl(files, EVENTS_FILE)
           k    == Len(rows)
       IN  /\ k >= 3
           /\ k = 4 + 2 * rows[3]["payload"]["tool_calls"].len
           /\ \E ts \in Times, a \in ArgsValues :
                files' = append_event(files, "user.message", "s1", "trace_1",
                            session_payload("user", new_span(k + 1), new_span(1),
                                            [text |-> "note", args |-> a]),
                            Some(ts), Absent, actor_var, now)
    /\ UNCHANGED <<process_vars, now, tool_vars>>

NextStrict ==
    \/ WriteSessionEvent
    \/ write_note
    \/ Replay

SpecStrict == InitReplay /\ [][NextStrict]_vars

----------------------------------------------------------------------------
(* A booted program that sets the ambient actor and writes events through  *)
(* append_event and through EventLedger.append, with payloads that carry   *)
(* the forbidden and legacy keys and with actors that lack kind or id.     *)
MaxLedger == 2

ActorValues ==
    {[kind |-> "agent", id |-> "a1"],
     [kind |-> "agent", id |-> "unknown"],
     [kind |-> "", id |-> "a1"],
     [kind |-> "agent"],
     EmptyDict}

ActorArgs == {Absent} \cup {Some(a) : a \in ActorValues}

(* What a call of emit leaves to its caller: the exception of lines 92-95, *)
(* or the envelope (None here: the callers of the model do not use it).    *)
emit_outcome(call, actor, av) ==
    [call   |-> call,
     arg    |-> actor,
     actor  |-> emit_actor(actor, av),
     raised |-> IF emit_raises(emit_actor(actor, av)) THEN "AssertionError" ELSE None]

(* trace_context.set_current_actor(actor) *)
set_current_actor(actor) == Some(actor)

SetCurrentActor ==
    /\ pc = "running"
    /\ handlers = <<>>
    /\ ToolsIdle
    /\ \E a \in ActorValues : actor_var' = set_current_actor(a)
    /\ UNCHANGED <<files, has_store, identity_file, pc, ctx, ledger_path,
                   process_context, hooks_installed, emitted, handlers, n_boots,
                   shutdown_calls, signals_sent, uuid_next, now>>
    /\ UNCHANGED tool_vars

MetaPayloads ==
    {[k \in ks |-> MetaValues[k]] : ks \in
        {{}, {"trace_id"}, {"span_id"}, {"span_id", "_span_id"}, {"parent_span_id"},
         DOMAIN MetaValues}}

(* append_event(event_type="tool.call", session_id="s1", payload=..., actor=...) *)
client_emit(max) ==
    /\ pc = "running"
    /\ handlers = <<>>
    /\ ToolsIdle
    /\ Len(files[EVENTS_FILE]) < max
    /\ \E payload \in MetaPayloads, actor \in ActorArgs :
        /\ files' = append_event(files, "tool.call", "s1", "trace_1", payload,
                                 Absent, actor, actor_var, now)
        /\ outcome' = emit_outcome("emit", actor, actor_var)
        /\ now' = IF emit_raises(emit_actor(actor, actor_var)) THEN now ELSE now + 1
    /\ UNCHANGED <<process_vars, report, rendered, verified, partial, tc, gov, mem>>

ClientEmit == client_emit(MaxLedger)

LedgerMetaValues ==
    [session_id |-> "s2", trace_id |-> "trace_9", _trace_id |-> "trace_8",
     span_id |-> "sp_2", parent_span_id |-> "sp_4"]

LedgerPayloads ==
    {[k \in ks |-> LedgerMetaValues[k]] : ks \in
        {{}, {"session_id", "trace_id"}, {"_trace_id"}, DOMAIN LedgerMetaValues}}

(* EventLedger(ledger_path).append("memory.write", payload, session_id=..., trace_id=...) *)
client_ledger_append(max) ==
    /\ pc = "running"
    /\ handlers = <<>>
    /\ ToolsIdle
    /\ Len(files[EVENTS_FILE]) < max
    /\ \E payload \in LedgerPayloads, sid \in {None, "s1"}, tid \in {None, "trace_1"} :
        /\ files' = ledger_append(files, ledger_path, "memory.write", payload,
                                  sid, tid, Absent, actor_var, now)
        /\ outcome' = emit_outcome("ledger.append", Absent, actor_var)
        /\ now' = IF emit_raises(emit_actor(Absent, actor_var)) THEN now ELSE now + 1
    /\ UNCHANGED <<process_vars, report, rendered, verified, partial, tc, gov, mem>>

ClientLedgerAppend == client_ledger_append(MaxLedger)

NextWrite ==
    \/ HookedBoot
    \/ HookedBootRaises
    \/ \E r \in ExitReasons : Shutdown(r)
    \/ SetCurrentActor
    \/ ClientEmit
    \/ ClientLedgerAppend

SpecWrite == Init /\ [][NextWrite]_vars

(* Every writer of the ledger in one program (boot, client events,       *)
(* shutdown, the lifecycle hooks), and the offline tools run over the    *)
(* ledger once the last process is gone.                                 *)
Offline == pc = "idle" /\ n_boots = MaxHookBoots

OfflineReplay == Offline /\ ReplayAll

OfflineRender == Offline /\ RenderAll

NextAll ==
    \/ HookedBoot
    \/ HookedBootRaises
    \/ WriteMemoryFile
    \/ \E r \in ExitReasons : Shutdown(r)
    \/ P00Shutdown
    \/ InstallHooks
    \/ \E sg \in Signals : Signal(sg)
    \/ EmitShutdownCheck
    \/ EmitShutdownSet
    \/ EmitShutdownAppend
    \/ Exit
    \/ ProcessEnd
    \/ Crash
    \/ ClientEmit
    \/ OfflineReplay
    \/ OfflineRender

SpecAll == Init /\ [][NextAll]_vars

(* Clients that write one span per envelope, each with a new span id, a  *)
(* type of types and a parent of parents (no parent, a span written     *)
(* before or after it, itself, or a span the ledger never holds).        *)
append_node(max, types, times, parents) ==
    /\ ToolsIdle
    /\ Len(files[EVENTS_FILE]) < max
    /\ \E t \in types, ts \in times, parent \in parents :
            files' = append_event(files, t, "s1", "trace_1",
                        span_payload(SpanIds[Len(files[EVENTS_FILE]) + 1], parent),
                        Some(ts), Absent, actor_var, now)
    /\ UNCHANGED <<process_vars, now, tool_vars>>

WrittenSpans == {SpanIds[i] : i \in 1..MaxRows}

(* Sessions with any number of session.start and session.end spans. *)
AppendEnds ==
    append_node(MaxRows, {"session.start", "session.end"}, Times,
                {None} \cup WrittenSpans)

NextEnds ==
    \/ AppendEnds
    \/ ReplayAll

SpecEnds == InitReplay /\ [][NextEnds]_vars

(* Tool spans in any arrangement, all with the same timestamp. *)
AppendChain ==
    append_node(MaxRows, {"tool.call", "tool.result", "tool.error"}, {1},
                {None, MissingSpan} \cup WrittenSpans)

NextChain ==
    \/ AppendChain
    \/ ReplayAll

SpecChain == InitReplay /\ [][NextChain]_vars

(* Clients that pass emit actors of any kind: one the test suite allows *)
(* and the ActorContext of the design does not, and one nobody allows.   *)
KindActors ==
    {[kind |-> "agent", id |-> "a1"],
     [kind |-> "institution", id |-> "a1"],
     [kind |-> "alien", id |-> "a1"]}

emit_kinds(max) ==
    /\ ToolsIdle
    /\ Len(files[EVENTS_FILE]) < max
    /\ \E payload \in MetaPayloads, actor \in {Absent} \cup {Some(a) : a \in KindActors} :
        /\ files' = append_event(files, "tool.call", "s1", "trace_1", payload,
                                 Absent, actor, actor_var, now)
        /\ outcome' = emit_outcome("emit", actor, actor_var)
    /\ now' = now + 1
    /\ UNCHANGED <<process_vars, report, rendered, verified, partial, tc, gov, mem>>

EmitKinds == emit_kinds(MaxLedger)

NextKinds == EmitKinds

SpecKinds == InitReplay /\ [][NextKinds]_vars

(* A client that opens and closes spans on one TraceContext.  calls is  *)
(* the sequence of its calls, returned the pairs new_span() gave it.    *)
MaxCalls == 6

new_span_parent_is_bottom(stack, span_id) ==
    [stack  |-> Append(stack, span_id),
     result |-> <<span_id, IF stack /= <<>> THEN stack[1] ELSE None>>]

(* TraceContext.new_span() with span_id the uuid4 it draws: the stack *)
(* after the call and the pair returned.                              *)
TraceContext_new_span(stack, span_id) ==
    [stack  |-> Append(stack, span_id),
     result |-> <<span_id, IF stack /= <<>> THEN stack[Len(stack)] ELSE None>>]

end_span_pops_first(stack) ==
    IF stack /= <<>> THEN Tail(stack) ELSE stack

end_span_clears(stack) == <<>>

(* TraceContext.end_span(): the stack after the call. *)
TraceContext_end_span(stack) ==
    IF stack /= <<>> THEN SubSeq(stack, 1, Len(stack) - 1) ELSE stack

new_span_call(max) ==
    /\ Len(tc.calls) < max
    /\ LET r == TraceContext_new_span(tc.stack, uuid4(uuid_next))
       IN  tc' = [stack    |-> r.stack,
                  calls    |-> Append(tc.calls, "new_span"),
                  returned |-> Append(tc.returned, r.result)]
    /\ uuid_next' = uuid_next + 1
    /\ UNCHANGED <<files, has_store, identity_file, pc, ctx, ledger_path,
                   process_context, actor_var, hooks_installed, emitted, handlers,
                   n_boots, shutdown_calls, signals_sent, now, report, rendered,
                   verified, outcome, partial, gov, mem>>

end_span_call(max) ==
    /\ Len(tc.calls) < max
    /\ tc' = [tc EXCEPT !.stack = TraceContext_end_span(@),
                        !.calls = Append(@, "end_span")]
    /\ UNCHANGED <<files, process_vars, now, report, rendered, verified, outcome,
                   partial, gov, mem>>

NewSpan == new_span_call(MaxCalls)

EndSpan == end_span_call(MaxCalls)

NextTrace ==
    \/ NewSpan
    \/ EndSpan

SpecTrace == InitReplay /\ [][NextTrace]_vars

(* A writer whose line reaches the events file in two parts (a line      *)
(* longer than the buffer of the file object, or a writer preempted in   *)
(* mid-write), and the readers of the file: the validator, the renderer  *)
(* and the recovery scan of boot().  While partial holds a line, the     *)
(* file ends with a proper, non-empty prefix of its text, without "\n".  *)
write_part(max) ==
    /\ ToolsIdle
    /\ partial = Absent
    /\ Len(files[EVENTS_FILE]) < max
    /\ \E span \in SpansToWrite(files, max) :
            partial' = Some(emit_line("user.message", "s1", "trace_1",
                                      span_payload(span, None), now,
                                      emit_actor(Absent, actor_var)))
    /\ UNCHANGED <<files, process_vars, now, report, rendered, verified, outcome, tc, gov, mem>>

WritePart == write_part(MaxRows)

WriteRest ==
    /\ ToolsIdle
    /\ partial /= Absent
    /\ files' = [files EXCEPT ![EVENTS_FILE] = Append(@, partial[1])]
    /\ partial' = Absent
    /\ now' = now + 1
    /\ UNCHANGED <<process_vars, report, rendered, verified, outcome, tc, gov, mem>>

(* json.loads of the last line of the file raises: the text is a proper *)
(* prefix of a JSON object.                                             *)
json_loads_raises(path, tail) == path = EVENTS_FILE /\ tail /= Absent

(* read_jsonl, lines 42-43, and _read_jsonl, lines 37-38: SystemExit. *)
invalid_json_exit(fs, path) ==
    [ran |-> TRUE, strict |-> FALSE, rows |-> <<>>, reports |-> <<>>, groups |-> <<>>,
     exited |-> TRUE, raised |-> FALSE,
     error |-> <<"[ERROR] Invalid JSON on line", Len(fs[path]) + 1>>]

ReplayPartial ==
    /\ ToolsIdle
    /\ \E strict \in BOOLEAN :
        report' = IF json_loads_raises(EVENTS_FILE, partial)
                  THEN invalid_json_exit(files, EVENTS_FILE)
                  ELSE replay_main(files, EVENTS_FILE, Absent, strict)
    /\ UNCHANGED <<files, process_vars, now, rendered, verified, call_vars>>

RenderPartial ==
    /\ ToolsIdle
    /\ rendered' = IF json_loads_raises(EVENTS_FILE, partial)
                    THEN invalid_json_exit(files, EVENTS_FILE)
                    ELSE render_main(files, EVENTS_FILE, Absent, Absent, FALSE, Absent)
    /\ UNCHANGED <<files, process_vars, now, report, verified, call_vars>>

(* boot() reads the ledger only when the memory store exists (line 110);  *)
(* EventLedger.read_all raises ValueError at line 58, after the identity *)
(* was loaded or created and before anything else is written.             *)
scan_raises(store, path, tail) == store /\ json_loads_raises(path, tail)

boot_scan_raises(max) ==
    /\ pc = "idle"
    /\ n_boots < max
    /\ ~identity_raises(identity_file)
    /\ scan_raises(has_store, ledger_path, partial)
    /\ identity_file' = Some(load_or_create_system_id(identity_file, uuid_next, now))
    /\ uuid_next' = IF identity_file = Absent THEN uuid_next + 3 ELSE uuid_next + 2
    /\ n_boots' = n_boots + 1
    /\ outcome' = [call |-> "boot", actor |-> EmptyDict, raised |-> "ValueError"]
    /\ UNCHANGED <<files, has_store, pc, ctx, ledger_path, process_context, actor_var,
                   hooks_installed, emitted, handlers, shutdown_calls, signals_sent,
                   now, report, rendered, verified, partial, tc, gov, mem>>

BootScanRaises == boot_scan_raises(MaxBoots)

(* The program itself writes while no other writer is in mid-line. *)
BootAlone == partial = Absent /\ ToolsIdle /\ Boot

NextPartial ==
    \/ WritePart
    \/ WriteRest
    \/ ReplayPartial
    \/ RenderPartial
    \/ BootAlone
    \/ BootScanRaises
    \/ WriteMemoryFile
    \/ Exit
    \/ ProcessEnd

SpecPartial == InitReplay /\ [][NextPartial]_vars

(* A ledger that holds the envelopes of one session, each written either *)
(* by the writer of this version or by the writer of schema 1.0 (whose    *)
(* payloads could still carry trace_id); then the operator runs the        *)
(* validator and the verifier over it, in either order.                    *)
legacy_line(event_type, session_id, trace_id, payload, ts) ==
    canonical_line(
        [schema_version |-> "1.0",
         event_type     |-> event_type,
         session_id     |-> session_id,
         trace_id       |-> trace_id,
         ts             |-> ts,
         payload        |-> payload,
         payload_hash   |-> sha256_hex(canonical_json(payload))])

append_session_row(max) ==
    /\ ToolsIdle
    /\ Len(files[EVENTS_FILE]) < max
    /\ \E t \in SESS_TYPES :
        LET k       == Len(files[EVENTS_FILE])
            parent  == IF t = "session.start" \/ k = 0 THEN None ELSE SpanIds[1]
            payload == span_payload(SpanIds[k + 1], parent)
        IN  \/ files' = append_event(files, t, "s1", "trace_1", payload,
                                     Absent, Absent, actor_var, now)
            \/ \E p \in {payload, Put(payload, "trace_id", "trace_1")} :
                    files' = [files EXCEPT ![EVENTS_FILE] =
                                Append(@, legacy_line(t, "s1", "trace_1", p,
                                                      utc_ts_iso(now)))]
    /\ now' = now + 1
    /\ UNCHANGED <<process_vars, tool_vars>>

AppendSessionRow == append_session_row(MaxRows)

(* python scripts/replay_runner.py [--strict] *)
ReplayLedger ==
    /\ ~report.ran
    /\ \E strict \in BOOLEAN :
            report' = replay_main(files, EVENTS_FILE, Absent, strict)
    /\ UNCHANGED <<files, process_vars, now, rendered, verified, call_vars>>

(* python scripts/verify_events_ledger.py [--fail-on-nonv1] *)
VerifyLedger ==
    /\ ~verified.ran
    /\ \E fail_on_nonv1 \in BOOLEAN :
            verified' = verify_main(files, EVENTS_FILE, fail_on_nonv1)
    /\ UNCHANGED <<files, process_vars, now, report, rendered, call_vars>>

NextVerify ==
    \/ AppendSessionRow
    \/ ReplayLedger
    \/ VerifyLedger

SpecVerify == InitReplay /\ [][NextVerify]_vars

----------------------------------------------------------------------------
(* canonical_json and sha256_hex over dicts as Python keeps them: a dict *)
(* is the sequence of its <<key, value>> items in insertion order, keys  *)
(* distinct; the value under args or payload is such a dict again.       *)
NestedKeys == {"args", "payload"}

ItemKeys(items) == {items[i][1] : i \in DOMAIN items}

ItemOf(items, k) == items[CHOOSE i \in DOMAIN items : items[i][1] = k]

(* sorted(dict.items()): the items in the order of their keys. *)
sorted_items(items) ==
    LET ks == SelectSeq(KeyOrder, LAMBDA k : k \in ItemKeys(items))
    IN  [i \in 1..Len(ks) |-> ItemOf(items, ks[i])]

(* json.dumps(obj, sort_keys=..., separators=(",", ":")): the text, pair by pair. *)
RECURSIVE json_dumps(_, _)
json_dumps(items, sort_keys) ==
    LET its == IF sort_keys THEN sorted_items(items) ELSE items
    IN  [i \in 1..Len(its) |->
            <<key_text(its[i][1]),
              IF its[i][1] \in NestedKeys THEN json_dumps(its[i][2], sort_keys)
              ELSE its[i][2]>>]

(* A canonical_json that leaves sort_keys out. *)
canonical_json_insertion_order(items) == json_dumps(items, FALSE)

canonical_json_of_items(items) == json_dumps(items, TRUE)

(* The key/value content of a dict, whatever order it was built in. *)
RECURSIVE dict_of(_)
dict_of(items) ==
    [k \in ItemKeys(items) |->
        IF k \in NestedKeys THEN dict_of(ItemOf(items, k)[2]) ELSE ItemOf(items, k)[2]]

(* The ways of building a dict with the keys ks. *)
Orders(ks) ==
    {o \in [1..Cardinality(ks) -> ks] : \A i, j \in DOMAIN o : o[i] = o[j] => i = j}

ScalarBuilds(keys, values) ==
    UNION {{[i \in DOMAIN o |-> <<o[i], v[o[i]]>>] : o \in Orders(ks), v \in [ks -> values]} :
            ks \in SUBSET keys}

ArgsBuilds == ScalarBuilds({"message", "reply"}, {"x"})

PayloadBuilds ==
    ScalarBuilds({"text", "tool_name"}, {"hi", "yo"})
    \cup UNION {{[i \in DOMAIN o |-> <<o[i], IF o[i] = "args" THEN a ELSE v[o[i]]>>] :
                    o \in Orders(ks \cup {"args"}), v \in [ks -> {"hi", "yo"}], a \in ArgsBuilds} :
                ks \in SUBSET {"text", "tool_name"}}

(* payload_canon = canonical_json(payload); payload_hash = sha256_hex(payload_canon) *)
canonicalize_call ==
    /\ ToolsIdle
    /\ \E items \in PayloadBuilds :
            outcome' = [call |-> "canonical_json",
                        arg  |-> items,
                        text |-> canonical_json_of_items(items),
                        hash |-> sha256_hex(canonical_json_of_items(items))]
    /\ UNCHANGED <<files, process_vars, now, report, rendered, verified, partial, tc, gov, mem>>

NextCanon == canonicalize_call

SpecCanon == InitReplay /\ [][NextCanon]_vars

----------------------------------------------------------------------------
(* adk_runtime/observability.py *)
MaxObs == 2

(* _system_id_var, _process_id_var and _run_id_var are ContextVars: what  *)
(* set_process_context stored is read back in the context that ran        *)
(* boot(); a thread started by the program runs in a context of its own,  *)
(* where every variable has its default, None.                            *)
Threads == {"main", "worker"}

context_of(thread, pctx) == IF thread = "main" THEN pctx ELSE NoProcessContext

(* _normalize_layer *)
normalize_layer(event_type, layer) ==
    IF Truthy(layer) THEN layer
    ELSE IF event_type \in {"tool.call", "tool.result", "tool.error"} THEN "tool"
    ELSE "runtime"

PutIf(d, cond, k, v) == IF cond THEN Put(d, k, v) ELSE d

(* emit_event: the record appended to OBS_EVENTS_FILE.  The line is     *)
(* json.dumps(record); the model keeps the record json.loads gives back. *)
emit_event(fs, event_type, run_id, payload, layer, session_id, system_id, process_id, clock) ==
    LET r0 == [event_type |-> event_type, run_id |-> run_id, timestamp |-> clock]
        r1 == PutIf(r0, Truthy(system_id), "system_id", system_id)
        r2 == PutIf(r1, Truthy(process_id), "process_id", process_id)
        r3 == Put(r2, "layer", normalize_layer(event_type, layer))
        r4 == PutIf(r3, Truthy(session_id), "session_id", session_id)
        r5 == PutIf(r4, DOMAIN payload /= {}, "payload", payload)
    IN  [fs EXCEPT ![OBS_EVENTS_FILE] = Append(@, r5)]

(* log_event, lines 157-164: the run_id of the record. *)
log_event_run_id(run_id, session_id) ==
    IF Truthy(run_id) THEN run_id ELSE "unknown"

(* log_event called in a context that sees the process context pctx. *)
log_event(fs, pctx, event_type, source, payload, session_id, trace_id, clock) ==
    LET system_id  == pctx.system_id
        process_id == pctx.process_id
        p0 == Put(Put(payload, "_source", source), "_trace_id", trace_id)
        p1 == PutIf(p0, Truthy(system_id), "_system_id", system_id)
        p2 == PutIf(p1, Truthy(process_id), "_process_id", process_id)
        p3 == PutIf(p2, ~Truthy(pctx.run_id), "_missing_run_id_reason", "no_trace_context")
    IN  emit_event(fs, event_type, log_event_run_id(pctx.run_id, session_id), p3,
                   normalize_layer(event_type, None), session_id, system_id,
                   process_id, clock)

(* A program that has booted logs an event, on its main thread or on a *)
(* thread it started.                                                  *)
log_event_call(max) ==
    /\ pc = "running"
    /\ handlers = <<>>
    /\ ToolsIdle
    /\ Len(files[OBS_EVENTS_FILE]) < max
    /\ \E thread \in Threads, session_id \in {"s1", ""},
          event_type \in {"session.start", "tool.call"} :
        /\ files' = log_event(files, context_of(thread, process_context), event_type,
                              "p00", [text |-> "hi"], session_id, "trace_1", now)
        /\ outcome' = [call |-> "log_event", thread |-> thread, session_id |-> session_id]
    /\ now' = now + 1
    /\ UNCHANGED <<process_vars, report, rendered, verified, partial, tc, gov, mem>>

LogEvent == log_event_call(MaxObs)

NextObs ==
    \/ Boot
    \/ LogEvent
    \/ Crash

SpecObs == InitReplay /\ [][NextObs]_vars

----------------------------------------------------------------------------
(* python scripts/render_trace_tree.py --no-payload --max-depth N over *)
(* ledgers of spans with distinct ids and any parent links.            *)
DepthArgs == {Some(0), Some(1), Some(2)}

render_depth_tool(depths) ==
    /\ ToolsIdle
    /\ \E max_depth \in depths :
            rendered' = Put(render_main(files, EVENTS_FILE, Absent, Absent, TRUE, max_depth),
                            "max_depth", max_depth)
    /\ UNCHANGED <<files, process_vars, now, report, verified, call_vars>>

RenderDepth == render_depth_tool(DepthArgs)

AppendNode ==
    append_node(MaxRows, {"session.start", "user.message"}, {1}, {None} \cup WrittenSpans)

NextDepth ==
    \/ AppendNode
    \/ RenderDepth

SpecDepth == InitReplay /\ [][NextDepth]_vars

----------------------------------------------------------------------------
(* projects/mcp/10-governance-layer/main.py                               *)
(*                                                                        *)
(* A namespaced tool name "ns.tool" is the sequence <<ns, tool>> and a    *)
(* namespaced uri "ns::a/b" the sequence <<ns, a, b>>: a name without     *)
(* "." or "::" has one element, and "needle in uri" is the test that a    *)
(* segment is the needle.  expires_at is what _parse_iso_z makes of the   *)
(* text: nothing (unparsable), or a time that carries an offset (aware)   *)
(* or none.                                                               *)
MaxOverrides == 2

MaxRequests == 2

Downstreams == {"fs"}

POLICY_SPEC ==
    [deny_resource_uri_contains             |-> {"docs"},
     deny_tools                             |-> {},
     require_override_tools                 |-> {<<"fs", "read_file">>},
     require_override_resource_uri_contains |-> {}]

Segments(uri) == {uri[i] : i \in DOMAIN uri}

(* PolicyV0.evaluate *)
evaluate(request_summary) ==
    LET out(decision, reason) ==
            [decision |-> decision, reason |-> reason, policy_version |-> "mcp10-policy-v0"]
    IN  IF request_summary.type = "tool"
        THEN IF request_summary.name \in POLICY_SPEC.deny_tools
             THEN out("DENY", "tool denied by policy")
             ELSE IF request_summary.name \in POLICY_SPEC.require_override_tools
             THEN out("REQUIRE_OVERRIDE", "tool requires override")
             ELSE out("ALLOW", "default allow")
        ELSE IF Segments(request_summary.uri) \cap POLICY_SPEC.deny_resource_uri_contains /= {}
             THEN out("DENY", "resource uri denied by policy")
             ELSE IF Segments(request_summary.uri)
                        \cap POLICY_SPEC.require_override_resource_uri_contains /= {}
             THEN out("REQUIRE_OVERRIDE", "resource requires override")
             ELSE out("ALLOW", "default allow")

StartsWith(s, prefix) ==
    Len(prefix) <= Len(s) /\ \A i \in DOMAIN prefix : s[i] = prefix[i]

(* OverrideStore.find_applicable, lines 424-453: the scope of rec covers *)
(* the request.                                                          *)
scope_applies(rec, request_summary) ==
    LET scope == rec.scope
    IN  /\ ~Truthy(Get(scope, "namespace")) \/ scope["namespace"] = request_summary.namespace
        /\ IF request_summary.type = "tool"
           THEN /\ "tool" \in DOMAIN scope
                /\ \/ scope["tool"] = request_summary.name
                   \/ scope["tool"] = Tail(request_summary.name)
           ELSE \/ /\ "uri_prefix" \in DOMAIN scope
                   /\ \/ StartsWith(request_summary.uri, scope["uri_prefix"])
                      \/ StartsWith(Tail(request_summary.uri), scope["uri_prefix"])
                \/ /\ "uri" \in DOMAIN scope
                   /\ \/ scope["uri"] = request_summary.uri
                      \/ scope["uri"] = Tail(request_summary.uri)

(* OverrideStore.find_applicable over records[1..i], the last one first: *)
(* the record found, none, or the TypeError of "exp <= now" when exp    *)
(* carries no offset.                                                    *)
RECURSIVE find_applicable(_, _, _, _)
find_applicable(records, i, request_summary, clock) ==
    IF i = 0 THEN [raised |-> None, rec |-> Absent]
    ELSE LET rec == records[i]
             exp == rec.expires_at
         IN  IF ~exp.parsed THEN find_applicable(records, i - 1, request_summary, clock)
             ELSE IF ~exp.aware THEN [raised |-> "TypeError", rec |-> Absent]
             ELSE IF exp.at <= clock
             THEN find_applicable(records, i - 1, request_summary, clock)
             ELSE IF scope_applies(rec, request_summary)
             THEN [raised |-> None, rec |-> Some(rec)]
             ELSE find_applicable(records, i - 1, request_summary, clock)

(* GovernanceBus._summarize_tool_call and _summarize_resource_read. *)
summarize_raises(req) ==
    IF req.method = "tools/call"
    THEN "name" \notin DOMAIN req.params \/ Len(req.params["name"]) < 2
    ELSE "uri" \notin DOMAIN req.params \/ Len(req.params["uri"]) < 2

summarize(req) ==
    IF req.method = "tools/call"
    THEN [type |-> "tool", namespace |-> req.params["name"][1], name |-> req.params["name"]]
    ELSE [type |-> "resource", namespace |-> req.params["uri"][1], uri |-> req.params["uri"]]

(* govern_and_call_tool / govern_and_read_resource up to the decision: *)
(* what is logged, whether the request goes on, the error code if not. *)
govern(overrides, request_summary, clock) ==
    LET policy_out == evaluate(request_summary)
        found      == find_applicable(overrides, Len(overrides), request_summary, clock)
        verdict(decision, ov, what, code) ==
            [raised |-> None, decision |-> decision, policy |-> policy_out,
             override_rec |-> ov, outcome |-> what, code |-> code]
    IN  IF policy_out.decision = "ALLOW" THEN verdict("ALLOW", Absent, "forwarded", 0)
        ELSE IF policy_out.decision = "DENY" THEN verdict("DENY", Absent, "blocked", 403)
        ELSE IF found.raised /= None THEN [raised |-> found.raised]
        ELSE IF found.rec /= Absent THEN verdict("OVERRIDDEN", found.rec, "forwarded", 0)
        ELSE verdict("DENY", Absent, "blocked", 401)

(* DecisionLogger.write: the record appended for request number i. *)
decision_record(i, request_summary, v, clock) ==
    [request         |-> i,
     timestamp       |-> clock,
     request_summary |-> request_summary,
     decision        |-> v.decision,
     policy_version  |-> v.policy.policy_version,
     policy_reason   |-> v.policy.reason,
     override_id     |-> IF v.override_rec /= Absent THEN v.override_rec[1].override_id ELSE None,
     override_who    |-> IF v.override_rec /= Absent THEN v.override_rec[1].who ELSE None,
     override_reason |-> IF v.override_rec /= Absent THEN v.override_rec[1].reason ELSE None,
     outcome         |-> v.outcome]

(* CapabilityBusV0.tools_call / resources_read: "unknown namespace". *)
bus_raises(request_summary) == request_summary.namespace \notin Downstreams

(* main, lines 647-724: one request line read from stdin and answered. *)
handle_request(g, req, clock) ==
    LET i  == Len(g.requests) + 1
        g0 == [g EXCEPT !.requests = Append(@, req)]
        answered(gx, code) == [gx EXCEPT !.responses = Append(@, [request |-> i, code |-> code])]
    IN  IF summarize_raises(req) THEN answered(g0, -32603)
        ELSE LET s == summarize(req)
                 v == govern(g.overrides, s, clock)
             IN  IF v.raised /= None THEN answered(g0, -32603)
                 ELSE LET g1 == [g0 EXCEPT !.decisions = Append(@, decision_record(i, s, v, clock)),
                                           !.trace = Append(@, <<"decision", i>>)]
                      IN  IF v.outcome /= "forwarded" THEN answered(g1, v.code)
                          ELSE IF bus_raises(s) THEN answered(g1, -32603)
                          ELSE answered([g1 EXCEPT !.forwarded = Append(@, [request |-> i, method |-> req.method]),
                                                   !.trace = Append(@, <<"forward", i>>)], 0)

RequestValues ==
    {[method |-> "tools/call", params |-> p] :
        p \in {EmptyDict, [name |-> <<"read_file">>], [name |-> <<"fs", "read_file">>],
               [name |-> <<"fs", "list">>], [name |-> <<"zz", "list">>]}}
    \cup {[method |-> "resources/read", params |-> p] :
        p \in {[uri |-> <<"fs", "docs", "a">>], [uri |-> <<"fs", "notes">>]}}

Future == [parsed |-> TRUE, aware |-> TRUE, at |-> 99]

OverrideValues ==
    {[override_id |-> "ov_1", who |-> "ann", reason |-> "audit",
      scope |-> [namespace |-> "fs", tool |-> <<"read_file">>], expires_at |-> Future],
     [override_id |-> "ov_2", who |-> "bob", reason |-> "debug",
      scope |-> [tool |-> <<"fs", "read_file">>], expires_at |-> Future],
     [override_id |-> "ov_3", who |-> "ann", reason |-> "old",
      scope |-> [tool |-> <<"read_file">>],
      expires_at |-> [parsed |-> TRUE, aware |-> TRUE, at |-> 0]],
     [override_id |-> "ov_4", who |-> "bob", reason |-> "docs",
      scope |-> [namespace |-> "fs", uri_prefix |-> <<"fs">>], expires_at |-> Future],
     [override_id |-> "ov_5", who |-> "ann", reason |-> "whole namespace",
      scope |-> [namespace |-> "fs"], expires_at |-> Future],
     [override_id |-> "ov_6", who |-> "bob", reason |-> "no offset",
      scope |-> [tool |-> <<"read_file">>],
      expires_at |-> [parsed |-> TRUE, aware |-> FALSE, at |-> 99]],
     [override_id |-> "ov_7", who |-> "ann", reason |-> "no date",
      scope |-> [tool |-> <<"read_file">>],
      expires_at |-> [parsed |-> FALSE, aware |-> FALSE, at |-> 0]]}

(* An operator appends an override to mcp10_overrides.jsonl. *)
add_override(max) ==
    /\ Len(gov.overrides) < max
    /\ \E rec \in OverrideValues : gov' = [gov EXCEPT !.overrides = Append(@, rec)]
    /\ UNCHANGED <<files, process_vars, now, report, rendered, verified, outcome,
                   partial, tc, mem>>

(* A client sends a tools/call or resources/read line. *)
receive_request(max) ==
    /\ Len(gov.requests) < max
    /\ \E req \in RequestValues : gov' = handle_request(gov, req, now)
    /\ now' = now + 1
    /\ UNCHANGED <<files, process_vars, report, rendered, verified, outcome,
                   partial, tc, mem>>

AddOverride == add_override(MaxOverrides)

ReceiveRequest == receive_request(MaxRequests)

NextGovern ==
    \/ AddOverride
    \/ ReceiveRequest

SpecGovern == InitReplay /\ [][NextGovern]_vars

----------------------------------------------------------------------------
(* adk_runtime/memory_store.py: the legacy P07 store.  The file exists  *)
(* when has_store holds and mem.store is then its content; versions are *)
(* kept as the ints _to_int reads ("1.0" is 1).                         *)
MaxSaves == 1

DEFAULT_MEMORY == [schema_version |-> 1]

load_memory(exists, store) == IF exists THEN store ELSE DEFAULT_MEMORY

(* key.startswith("notes.") or key.startswith("observations.") *)
AllowListed == {"notes.a", "observations.b"}

(* _policy_check_write_proposal(proposal): key is None or a string. *)
policy_check_write_proposal(proposal_id, key) ==
    IF ~Truthy(key)
    THEN [proposal_id |-> proposal_id, decision |-> "blocked", rule_id |-> "P07-KEY-REQUIRED",
          reason |-> "P07 v0: memory writes require an explicit key."]
    ELSE IF key \in AllowListed
    THEN [proposal_id |-> proposal_id, decision |-> "allowed",
          rule_id |-> "P07-ALLOWLIST-NOTES-OBS",
          reason |-> "P07 v0 allow-list: notes.* and observations.*"]
    ELSE [proposal_id |-> proposal_id, decision |-> "blocked", rule_id |-> "P07-DENY-DEFAULT",
          reason |-> "P07 v0 deny-by-default: key not allow-listed."]

(* _apply_patch(key, value): the store file afterwards. *)
apply_patch(exists, store, key, value) ==
    IF ~Truthy(key) THEN [exists |-> exists, store |-> store]
    ELSE [exists |-> TRUE, store |-> Put(load_memory(exists, store), key, value)]

(* A store that commits whatever the policy said. *)
store_save_memory_unchecked(fs, exists, store, kwargs, av, clock) ==
    LET proposal_id == <<"mw", clock>>
        decision    == policy_check_write_proposal(proposal_id, kwargs.key)
        event(f, event_type, payload) ==
            append_event(f, event_type, "memory-store", proposal_id, payload,
                         Absent, Absent, av, clock)
        body == [proposal_id |-> proposal_id, source |-> kwargs.source]
        f1 == event(fs, "memory.write_proposed", body)
        f2 == event(f1, "policy.check", Put(body, "decision", decision))
        patched == apply_patch(exists, store, kwargs.key, kwargs.value)
    IN  [files |-> event(f2, "memory.write_committed", Put(body, "decision", decision)),
         exists |-> patched.exists, store |-> patched.store,
         result |-> [status |-> "committed", decision |-> decision]]

(* memory_store.save_memory(data, **kwargs) *)
store_save_memory(fs, exists, store, kwargs, av, clock) ==
    LET proposal_id == <<"mw", clock>>
        decision    == policy_check_write_proposal(proposal_id, kwargs.key)
        event(f, event_type, payload) ==
            append_event(f, event_type, "memory-store", proposal_id, payload,
                         Absent, Absent, av, clock)
        body == [proposal_id |-> proposal_id, source |-> kwargs.source]
        f1 == event(fs, "memory.write_proposed", body)
        f2 == event(f1, "policy.check", Put(body, "decision", decision))
        patched == apply_patch(exists, store, kwargs.key, kwargs.value)
    IN  IF decision.decision /= "allowed"
        THEN [files |-> event(f2, "memory.write_blocked", Put(body, "decision", decision)),
              exists |-> exists, store |-> store,
              result |-> [status |-> "blocked", decision |-> decision]]
        ELSE [files |-> event(f2, "memory.write_committed", Put(body, "decision", decision)),
              exists |-> patched.exists, store |-> patched.store,
              result |-> [status |-> "committed", decision |-> decision]]

(* adk_runtime/memory_gate_p08.py *)
MemoryZone == {"world_state", "decision_action", "observation", "legacy"}

(* _provenance_ok(prov): prov is Absent or Some(dict). *)
provenance_ok(prov) ==
    /\ prov /= Absent
    /\ Get(prov[1], "source_type") \in {"user_declared", "tool_verified", "human_approved"}

(* A _validate_entry that forgets UC-01 and the version comparisons. *)
validate_entry_any_version(runtime, schema_version, zone, provenance, promotion_from, promotion_authorized) ==
    IF zone = None THEN "UC-02: missing zone"
    ELSE IF zone \notin MemoryZone THEN "invalid zone"
    ELSE IF zone = "legacy" THEN "UC-03: cannot write to legacy zone"
    ELSE IF zone = "world_state" /\ ~provenance_ok(provenance)
    THEN "UC-07: world_state requires minimal provenance"
    ELSE IF promotion_from /= None /\ ~promotion_authorized
    THEN "UC-06: promotion to world_state requires explicit authorization"
    ELSE None

(* P08MemoryGate._validate_entry: None, or the reason of the refusal. *)
(* schema_version is Absent or Some(int).                             *)
validate_entry(runtime, schema_version, zone, provenance, promotion_from, promotion_authorized) ==
    IF schema_version = Absent THEN "UC-01: missing schema_version"
    ELSE IF schema_version[1] > runtime.supported_schema_version
    THEN "UC-05: unsupported future schema_version"
    ELSE IF schema_version[1] < runtime.supported_schema_version
    THEN "write must use current schema_version; older versions belong in legacy via migration"
    ELSE IF zone = None THEN "UC-02: missing zone"
    ELSE IF zone \notin MemoryZone THEN "invalid zone"
    ELSE IF zone = "legacy" THEN "UC-03: cannot write to legacy zone"
    ELSE IF zone = "world_state" /\ ~provenance_ok(provenance)
    THEN "UC-07: world_state requires minimal provenance"
    ELSE IF promotion_from /= None /\ ~promotion_authorized
    THEN "UC-06: promotion to world_state requires explicit authorization"
    ELSE None

(* P08MemoryGate._emit_block; the one rule hit of a decision is kept as *)
(* its rule_id.                                                        *)
emit_block(fs, path, decision, session_id, av, clock) ==
    ledger_append(fs, path, "memory.zone_validation", [ok |-> FALSE, decision |-> decision],
                  session_id, None, Absent, av, clock)

(* P08MemoryGate.save_memory(data, **kwargs): the files, the store and *)
(* the value returned.                                                 *)
gate_save_memory(m, fs, exists, kwargs, av, clock) ==
    LET blocked(reason, rule_id, result) ==
            [files  |-> emit_block(fs, GATE_LEDGER_FILE,
                                   [decision |-> "blocked", reason |-> reason, rule_id |-> rule_id],
                                   kwargs.session_id, av, clock),
             exists |-> exists, store |-> m.store, result |-> result]
        validation_error ==
            validate_entry(m.runtime, kwargs.schema_version, kwargs.zone, kwargs.provenance,
                           kwargs.promotion_from, kwargs.promotion_authorized)
    IN  IF Truthy(m.write_block_reason)
        THEN blocked(m.write_block_reason, "P08-QUARANTINED",
                     [status |-> "blocked",
                      decision |-> [decision |-> "blocked", reason |-> m.write_block_reason]])
        ELSE IF validation_error /= None
        THEN blocked(validation_error, "P08-VALIDATION",
                     [status |-> "blocked", decision |-> [reason |-> validation_error]])
        ELSE store_save_memory(
                ledger_append(fs, GATE_LEDGER_FILE, "memory.zone_validation",
                              [ok |-> TRUE, zone |-> kwargs.zone,
                               schema_version |-> kwargs.schema_version[1]],
                              kwargs.session_id, None, Absent, av, clock),
                exists, m.store, kwargs, av, clock)

(* P08MemoryGate._quarantine *)
quarantine(m, fs, exists, store, reason, session_id, block_writes, av, clock) ==
    LET p1 == apply_patch(exists, m.store, "legacy_quarantine",
                          [reason |-> reason, store |-> store])
        p2 == IF block_writes THEN p1
              ELSE apply_patch(p1.exists, p1.store, "current_schema_version",
                               m.runtime.supported_schema_version)
    IN  [mem    |-> [m EXCEPT !.store = p2.store,
                              !.write_block_reason = IF block_writes THEN reason ELSE None],
         exists |-> p2.exists,
         files  |-> ledger_append(fs, GATE_LEDGER_FILE, "memory.legacy_detected",
                                  [reason |-> reason, action |-> "quarantine_and_refuse_writes"],
                                  session_id, None, Absent, av, clock)]

(* P08MemoryGate.startup_confrontation(session_id=...); versions are the *)
(* ints _to_int returns, and a version of 0 is falsy for "or".           *)
startup_confrontation(m, fs, exists, session_id, av, clock) ==
    LET store          == load_memory(exists, m.store)
        has(k)         == k \in DOMAIN store /\ store[k] /= 0
        has_version    == "store_version" \in DOMAIN store
        ok_store       == ~has_version \/ store["store_version"] = m.runtime.supported_store_version
        has_schema     == has("schema_version") \/ has("current_schema_version")
        current_schema == IF has("schema_version") THEN store["schema_version"]
                          ELSE store["current_schema_version"]
        f1 == ledger_append(fs, GATE_LEDGER_FILE, "memory.version_check",
                            [ok |-> ok_store,
                             store_version |-> IF has_version THEN store["store_version"] ELSE None,
                             supported |-> m.runtime.supported_store_version],
                            session_id, None, Absent, av, clock)
        q(reason, block_writes) ==
            quarantine(m, f1, exists, store, reason, session_id, block_writes, av, clock)
    IN  IF ~ok_store THEN q("store_version_mismatch", TRUE)
        ELSE IF ~has_schema THEN q("missing_or_invalid_schema_version", FALSE)
        ELSE IF current_schema > m.runtime.supported_schema_version
        THEN q("future_schema_version", TRUE)
        ELSE IF current_schema < m.runtime.supported_schema_version
        THEN q("older_schema_version", FALSE)
        ELSE [mem |-> m, exists |-> exists, files |-> f1]

(* make_p08_gate(memory_store) (RuntimeSchema()), or the gate p00 makes *)
(* with RuntimeSchema(supported_schema_version=1).                     *)
MakeGate ==
    /\ ~mem.made
    /\ \E v \in {0, 1} :
            mem' = [mem EXCEPT !.made = TRUE, !.runtime.supported_schema_version = v]
    /\ UNCHANGED <<files, process_vars, now, report, rendered, verified, outcome,
                   partial, tc, gov>>

StartupConfrontation ==
    /\ mem.made
    /\ ~mem.confronted
    /\ LET r == startup_confrontation(mem, files, has_store, "p00-startup", actor_var, now)
       IN  /\ mem' = [r.mem EXCEPT !.confronted = TRUE]
           /\ files' = r.files
           /\ has_store' = r.exists
    /\ outcome' = [call |-> "startup_confrontation"]
    /\ now' = now + 1
    /\ UNCHANGED <<identity_file, pc, ctx, ledger_path, process_context, actor_var,
                   hooks_installed, emitted, handlers, n_boots, shutdown_calls,
                   signals_sent, uuid_next, report, rendered, verified, partial, tc, gov>>

SaveKwargs ==
    {[source |-> "p00", session_id |-> None, value |-> "v1",
      schema_version |-> sv, zone |-> zone, key |-> key,
      provenance |-> x.provenance, promotion_from |-> x.promotion_from,
      promotion_authorized |-> FALSE] :
        sv \in {Absent, Some(0), Some(1), Some(2)},
        zone \in {None, "observation", "world_state", "legacy"},
        key \in {None, "notes.a", "profile.name"},
        x \in {[provenance |-> Absent, promotion_from |-> None],
               [provenance |-> Some([source_type |-> "user_declared"]), promotion_from |-> None],
               [provenance |-> Absent, promotion_from |-> "observation"]}}

(* memory_gate.save_memory({}, source=..., schema_version=..., zone=..., key=..., value=...) *)
save_memory_call(max) ==
    /\ mem.made
    /\ mem.saves < max
    /\ \E kwargs \in SaveKwargs :
        LET r == gate_save_memory(mem, files, has_store, kwargs, actor_var, now)
        IN  /\ mem' = [mem EXCEPT !.store = r.store, !.saves = @ + 1]
            /\ files' = r.files
            /\ has_store' = r.exists
            /\ outcome' = [call |-> "save_memory", kwargs |-> kwargs, result |-> r.result]
    /\ now' = now + 1
    /\ UNCHANGED <<identity_file, pc, ctx, ledger_path, process_context, actor_var,
                   hooks_installed, emitted, handlers, n_boots, shutdown_calls,
                   signals_sent, uuid_next, report, rendered, verified, partial, tc, gov>>

SaveMemory == save_memory_call(MaxSaves)

NextGate ==
    \/ MakeGate
    \/ StartupConfrontation
    \/ SaveMemory

SpecGate == InitReplay /\ [][NextGate]_vars

----------------------------------------------------------------------------
(* What the ledger files hold. *)
Events == read_all(files, EVENTS_FILE)

IsBoot(ev) == ev["event_type"] = "system.boot"

IsShutdown(ev) == ev["event_type"] = "system.shutdown"

BootsOf(events, rid) ==
    {i \in DOMAIN events : IsBoot(events[i]) /\ events[i]["payload"]["run_id"] = rid}

ShutdownsOf(events, rid) ==
    {i \in DOMAIN events : IsShutdown(events[i]) /\ events[i]["payload"]["run_id"] = rid}

RunIdsIn(events) ==
    {events[i]["payload"]["run_id"] :
        i \in {j \in DOMAIN events : IsBoot(events[j]) \/ IsShutdown(events[j])}}

LastOf(seq) == seq[Len(seq)]

(* A step in which boot() runs to its end. *)
BootReturns == pc = "idle" /\ pc' = "running"

----------------------------------------------------------------------------
(* C1: whenever boot() is called while the most recent system.boot of the  *)
(* ledger (run R) has no system.shutdown with run_id R, the call returns   *)
(* boot_mode "recover" with recovered_from_run_id = R and the system.boot  *)
(* record it appends carries both values.                                  *)
UnmatchedLastBoot(events, rid) ==
    /\ \E i \in DOMAIN events :
        /\ IsBoot(events[i])
        /\ events[i]["payload"]["run_id"] = rid
        /\ \A j \in DOMAIN events : IsBoot(events[j]) => j <= i
    /\ ShutdownsOf(events, rid) = {}

C1_RecoverAfterUnmatchedBoot ==
    [][\A rid \in RunIdsIn(read_all(files, ledger_path)) :
        (BootReturns /\ UnmatchedLastBoot(read_all(files, ledger_path), rid)) =>
            /\ ctx'.boot_mode = "recover"
            /\ ctx'.recovered_from_run_id = rid
            /\ LET rec == json_loads(LastOf(files'[EVENTS_FILE]))
               IN  /\ IsBoot(rec)
                   /\ rec["payload"]["boot_mode"] = "recover"
                   /\ rec["payload"]["recovered_from_run_id"] = rid]_vars

(* C2: a call of shutdown() for a BootContext for which shutdown() has     *)
(* already appended a system.shutdown record appends nothing.              *)
WrittenByShutdown(ev) == IsShutdown(ev) /\ "actor" \in DOMAIN ev["payload"]

C2_ShutdownIdempotent ==
    [][\A r \in ExitReasons :
        (/\ Shutdown(r)
         /\ \E i \in ShutdownsOf(Events, ctx.run_id) : WrittenByShutdown(Events[i]))
        => files' = files]_vars

(* C3: with the lifecycle hooks installed and at most one explicit         *)
(* shutdown made by the main program, no run has more than one             *)
(* system.shutdown record, whatever the interleaving of the explicit call, *)
(* the atexit hook and the signal handlers.                                *)
ExplicitShutdownsOf(events, rid) ==
    {i \in ShutdownsOf(events, rid) :
        events[i]["payload"]["exit_reason"] \in ExitReasons}

C3_HooksEmitOneShutdown ==
    \A rid \in RunIdsIn(Events) :
        Cardinality(ExplicitShutdownsOf(Events, rid)) <= 1
            => Cardinality(ShutdownsOf(Events, rid)) <= 1

(* C4: every run_id of the ledger has exactly one system.boot record, and  *)
(* each boot() appends exactly one record, a system.boot whose run_id is   *)
(* not yet in the ledger.                                                  *)
C4_OneBootPerRun ==
    [][/\ \A rid \in RunIdsIn(Events) : Cardinality(BootsOf(Events, rid)) = 1
       /\ BootReturns =>
            /\ Len(files'[EVENTS_FILE]) = Len(files[EVENTS_FILE]) + 1
            /\ SubSeq(files'[EVENTS_FILE], 1, Len(files[EVENTS_FILE])) = files[EVENTS_FILE]
            /\ LET rec == json_loads(LastOf(files'[EVENTS_FILE]))
               IN  /\ IsBoot(rec)
                   /\ rec["payload"]["run_id"] = ctx'.run_id
                   /\ rec["payload"]["run_id"] \notin RunIdsIn(Events)]_vars

(* Three runs are in the ledger, one of them shut down, one of them not. *)
C4_Witness ==
    /\ Cardinality({i \in DOMAIN Events : IsBoot(Events[i])}) = 3
    /\ \E rid \in RunIdsIn(Events) : ShutdownsOf(Events, rid) /= {}
    /\ \E rid \in RunIdsIn(Events) : ShutdownsOf(Events, rid) = {}

----------------------------------------------------------------------------
(* Claims about scripts/replay_runner.py.  A claim about the ledger of a  *)
(* session is stated on the rows the tool read (report.rows), not on what *)
(* the tool computed from them.                                           *)
Reports == IF report.ran THEN report.reports ELSE <<>>

(* The span envelopes of session sid among the rows read. *)
SpanRowsOf(rows, sid) ==
    SelectSeq(rows, LAMBDA row :
        row["session_id"] = sid /\ Truthy(Get(row["payload"], "_span_id")))

SpanOf(row) == row["payload"]["_span_id"]

ParentOf(row) == Get(row["payload"], "_parent_span_id")

SpanSetOf(srows) == {SpanOf(srows[i]) : i \in DOMAIN srows}

(* The _parent_span_id links: <<child, parent>>. *)
LinksOf(srows) ==
    {<<SpanOf(srows[i]), ParentOf(srows[i])>> : i \in {j \in DOMAIN srows :
        Truthy(ParentOf(srows[j]))}}

(* The spans reached from s by following 1..k links upwards. *)
RECURSIVE AncestorsOf(_, _, _)
AncestorsOf(links, s, k) ==
    IF k = 0 THEN {}
    ELSE LET up == {l[2] : l \in {m \in links : m[1] = s}}
         IN  up \cup UNION {AncestorsOf(links, a, k - 1) : a \in up}

HasCycle(srows) ==
    \E s \in SpanSetOf(srows) : s \in AncestorsOf(LinksOf(srows), s, Len(srows))

CycleError == <<"cycle detected in span graph">>

(* C5: whenever the _parent_span_id links of a session's ledger contain a *)
(* cycle, the report of that session has validations.graph.cycle_detected *)
(* true and a cycle error in errors, in strict and in non-strict mode.    *)
C5_CycleReported ==
    \A i \in DOMAIN Reports :
        LET r == Reports[i]
        IN  HasCycle(SpanRowsOf(report.rows, r.session_id)) =>
                /\ r.validations.graph.cycle_detected
                /\ HasError(r.errors, CycleError)

(* A graph as C9 takes it: distinct span ids, every parent present, no cycle. *)
WellFormedGraph(srows) ==
    /\ \A i, j \in DOMAIN srows : SpanOf(srows[i]) = SpanOf(srows[j]) => i = j
    /\ \A l \in LinksOf(srows) : l[2] \in SpanSetOf(srows)
    /\ ~HasCycle(srows)

(* C9: for span envelopes with distinct ids, present parents and acyclic   *)
(* links, in any ledger order, children[p] is exactly the set of spans     *)
(* whose parent is p, roots exactly the spans without parent, orphans is   *)
(* empty and no cycle is reported.                                         *)
C9_GraphRebuilt ==
    \A i \in DOMAIN Reports :
        LET r     == Reports[i]
            srows == SpanRowsOf(report.rows, r.session_id)
            kids(p) == children_of(r.index.children, p)
        IN  WellFormedGraph(srows) =>
                /\ \A p \in SpanSetOf(srows) :
                    /\ Range(kids(p)) = {l[1] : l \in {m \in LinksOf(srows) : m[2] = p}}
                    /\ Len(kids(p)) = Cardinality(Range(kids(p)))
                /\ DOMAIN r.index.children \subseteq SpanSetOf(srows)
                /\ Range(r.index.roots) =
                    {SpanOf(srows[k]) : k \in {j \in DOMAIN srows : ~Truthy(ParentOf(srows[j]))}}
                /\ Len(r.index.roots) = Cardinality(Range(r.index.roots))
                /\ r.index.orphans = <<>>
                /\ ~r.validations.graph.cycle_detected
                /\ ~HasError(r.errors, CycleError)

(* A chain of three spans read with the grandchild first and the root last, *)
(* rebuilt as the single chain root -> child -> grandchild.                 *)
C9_Witness ==
    /\ report.ran
    /\ Len(report.rows) = 3
    /\ WellFormedGraph(SpanRowsOf(report.rows, "s1"))
    /\ ParentOf(report.rows[1]) = SpanOf(report.rows[2])
    /\ ParentOf(report.rows[2]) = SpanOf(report.rows[3])
    /\ ~Truthy(ParentOf(report.rows[3]))
    /\ report.rows[1]["ts"] < report.rows[3]["ts"]
    /\ LET r == report.reports[1]
       IN  /\ r.index.roots = <<SpanOf(report.rows[3])>>
           /\ children_of(r.index.children, SpanOf(report.rows[3])) = <<SpanOf(report.rows[2])>>
           /\ children_of(r.index.children, SpanOf(report.rows[2])) = <<SpanOf(report.rows[1])>>

(* The rows of session sid among the rows read, in file order. *)
RowsOf(rows, sid) == SelectSeq(rows, LAMBDA row : row["session_id"] = sid)

(* The total number of entries in the tool_calls lists of the agent.reply rows. *)
RECURSIVE DeclaredIn(_)
DeclaredIn(rows) ==
    IF rows = <<>> THEN 0
    ELSE LET row == Head(rows)
         IN  (IF /\ row["event_type"] = "agent.reply"
                 /\ "tool_calls" \in DOMAIN row["payload"]
                 /\ row["payload"]["tool_calls"].is_list
              THEN row["payload"]["tool_calls"].len ELSE 0) + DeclaredIn(Tail(rows))

ToolCallEventsIn(rows) ==
    Cardinality({i \in DOMAIN rows : rows[i]["event_type"] = "tool.call"})

(* The tool.call spans: the span ids whose first envelope, in the order of *)
(* replay (ts, event_type, then file order), is a tool.call.               *)
ToolCallSpansIn(rows) ==
    LET evs == sort_by_key([i \in 1..Len(rows) |-> parse_event(rows[i])])
    IN  Cardinality({i \in DOMAIN evs :
            /\ evs[i].event_type = "tool.call"
            /\ Truthy(evs[i].span_id)
            /\ \A j \in 1..(i - 1) : evs[j].span_id /= evs[i].span_id})

AccountingError(declared, observed) ==
    <<"tool_call accounting mismatch", declared, observed>>

AccountingAgrees(r, declared, observed) ==
    /\ r.validations.tool_call_accounting.ok <=> declared = observed
    /\ declared /= observed => HasError(r.errors, AccountingError(declared, observed))
    /\ declared = observed =>
        \A k \in DOMAIN r.errors : r.errors[k][1] /= "tool_call accounting mismatch"

(* C7 as stated: tool_call_accounting.ok holds exactly when the entries of *)
(* the tool_calls lists of all agent.reply events of the session number as *)
(* many as the tool.call events of the session; otherwise an accounting    *)
(* error names both counts.                                                *)
C7_AccountingCountsEvents ==
    \A i \in DOMAIN Reports :
        LET rows == RowsOf(report.rows, Reports[i].session_id)
        IN  AccountingAgrees(Reports[i], DeclaredIn(rows), ToolCallEventsIn(rows))

(* C7, amended: tool_call_accounting.ok holds exactly when the entries of  *)
(* the tool_calls lists of all agent.reply events of the session number as *)
(* many as the tool.call spans of the session (span ids whose first        *)
(* envelope in replay order is a tool.call; a tool.call without _span_id,  *)
(* or one repeating a span id already seen, is not counted); otherwise an  *)
(* accounting error names both counts.                                     *)
C7_AccountingCountsSpans ==
    \A i \in DOMAIN Reports :
        LET rows == RowsOf(report.rows, Reports[i].session_id)
        IN  AccountingAgrees(Reports[i], DeclaredIn(rows), ToolCallSpansIn(rows))

(* One reply declaring two calls and one tool.call span observed: the      *)
(* report carries the error declared=2 observed=1.                         *)
C7_Witness ==
    /\ report.ran
    /\ Len(report.rows) = 2
    /\ DeclaredIn(report.rows) = 2
    /\ ToolCallSpansIn(report.rows) = 1
    /\ ~report.reports[1].validations.tool_call_accounting.ok
    /\ HasError(report.reports[1].errors, AccountingError(2, 1))

(* The session shape of C8 on the rows of a session: one session.start    *)
(* root, one user.message under it, one agent.reply under the user        *)
(* message declaring n calls, n tool.call spans under the reply, each     *)
(* with exactly one tool.result child, one session.end under the root,    *)
(* nothing else, distinct span ids, and every payload_hash correct.       *)
RowsOfType(rows, t) == {i \in DOMAIN rows : rows[i]["event_type"] = t}

WellFormedSession(rows) ==
    LET starts  == RowsOfType(rows, "session.start")
        users   == RowsOfType(rows, "user.message")
        replies == RowsOfType(rows, "agent.reply")
        calls   == RowsOfType(rows, "tool.call")
        results == RowsOfType(rows, "tool.result")
        ends    == RowsOfType(rows, "session.end")
    IN  /\ DOMAIN rows = starts \cup users \cup replies \cup calls \cup results \cup ends
        /\ \A i \in DOMAIN rows :
            /\ Truthy(Get(rows[i]["payload"], "_span_id"))
            /\ rows[i]["payload_hash"] = sha256_hex(canonical_json(rows[i]["payload"]))
        /\ \A i, j \in DOMAIN rows : SpanOf(rows[i]) = SpanOf(rows[j]) => i = j
        /\ \E s \in starts, u \in users, a \in replies, e \in ends :
            /\ starts = {s} /\ users = {u} /\ replies = {a} /\ ends = {e}
            /\ ~Truthy(ParentOf(rows[s]))
            /\ ParentOf(rows[u]) = SpanOf(rows[s])
            /\ ParentOf(rows[a]) = SpanOf(rows[u])
            /\ ParentOf(rows[e]) = SpanOf(rows[s])
            /\ "tool_calls" \in DOMAIN rows[a]["payload"]
            /\ rows[a]["payload"]["tool_calls"].is_list
            /\ rows[a]["payload"]["tool_calls"].len = Cardinality(calls)
            /\ \A c \in calls :
                /\ ParentOf(rows[c]) = SpanOf(rows[a])
                /\ Cardinality({x \in results : ParentOf(rows[x]) = SpanOf(rows[c])}) = 1
            /\ \A x \in results : \E c \in calls : ParentOf(rows[x]) = SpanOf(rows[c])

(* C8: for every session ledger of that shape, replay_and_validate returns *)
(* zero errors, tool_call_accounting.ok true and                           *)
(* session_end_parent_root.ok true.                                        *)
C8_WellFormedSessionPasses ==
    \A i \in DOMAIN Reports :
        LET r == Reports[i]
        IN  WellFormedSession(RowsOf(report.rows, r.session_id)) =>
                /\ r.errors = <<>>
                /\ r.validations.tool_call_accounting.ok
                /\ r.validations.session_end_parent_root.ok

(* A complete session with two tool calls, the first tool.result stamped   *)
(* before its tool.call, replayed in strict mode without error.            *)
C8_Witness ==
    /\ report.ran
    /\ report.strict
    /\ ~report.exited
    /\ Len(report.rows) = 8
    /\ WellFormedSession(report.rows)
    /\ report.rows[5]["ts"] < report.rows[4]["ts"]
    /\ report.reports[1].errors = <<>>
    /\ report.reports[1].validations.tool_chain.tool_calls_observed = 2

HashMismatch(msg) == msg[1] = "payload_hash mismatch"

(* C10: every line written by EventWriter.emit records as payload_hash the *)
(* SHA-256 of the canonical JSON of the payload written in that line, and  *)
(* replay over a ledger written only by emit reports no payload_hash       *)
(* mismatch, as a warning or as an error.                                  *)
C10_HashReproducible ==
    /\ \A i \in DOMAIN files[EVENTS_FILE] :
        LET row == json_loads(files[EVENTS_FILE][i])
        IN  row["payload_hash"] = sha256_hex(canonical_json(row["payload"]))
    /\ \A i \in DOMAIN Reports :
        /\ \A k \in DOMAIN Reports[i].warnings : ~HashMismatch(Reports[i].warnings[k])
        /\ \A k \in DOMAIN Reports[i].errors : ~HashMismatch(Reports[i].errors[k])

(* The orphans among span rows: a parent is named and no row of the ledger *)
(* has that span id.                                                       *)
IsOrphanRow(row, rows) ==
    /\ Truthy(Get(row["payload"], "_span_id"))
    /\ Truthy(ParentOf(row))
    /\ \A j \in DOMAIN rows : Get(rows[j]["payload"], "_span_id") /= ParentOf(row)

ChildRowsOf(row, rows) ==
    {j \in DOMAIN rows :
        /\ Truthy(Get(rows[j]["payload"], "_span_id"))
        /\ ParentOf(rows[j]) = SpanOf(row)
        /\ rows[j]["session_id"] = row["session_id"]}

(* The validator shows a row at a depth: its head line is in replay_lines. *)
InReplayLines(r, row, depth) ==
    \E k \in DOMAIN r.replay_lines :
        r.replay_lines[k] = node_lines(parse_event(row), depth)[1]

(* The renderer shows a row at a depth: a node line of its span is printed. *)
InTrees(g, row, depth) ==
    \E k \in DOMAIN g.lines :
        /\ g.lines[k].kind = "node"
        /\ g.lines[k].depth = depth
        /\ g.lines[k].shown.span = SpanOf(row)
        /\ g.lines[k].shown.ts = row["ts"]
        /\ g.lines[k].shown.event_type = row["event_type"]

OrphansInReplay ==
    \A i \in DOMAIN Reports :
        LET r == Reports[i]
        IN  \A o \in DOMAIN report.rows :
                LET row == report.rows[o]
                IN  IsOrphanRow(row, report.rows) /\ row["session_id"] = r.session_id =>
                        /\ \E k \in DOMAIN r.index.orphans : r.index.orphans[k] = SpanOf(row)
                        /\ InReplayLines(r, row, 0)
                        /\ \A c \in ChildRowsOf(row, report.rows) :
                                InReplayLines(r, report.rows[c], 1)

RenderedGroups == IF rendered.ran THEN rendered.groups ELSE <<>>

OrphansInTrees ==
    \A i \in DOMAIN RenderedGroups :
        LET g == RenderedGroups[i]
        IN  \A o \in DOMAIN rendered.rows :
                LET row == rendered.rows[o]
                IN  /\ IsOrphanRow(row, rendered.rows)
                    /\ row["session_id"] = g.session_id
                    /\ row["trace_id"] = g.trace_id
                    =>  /\ \E k \in DOMAIN g.orphans : g.orphans[k] = SpanOf(row)
                        /\ InTrees(g, row, 0)
                        /\ \A c \in ChildRowsOf(row, rendered.rows) :
                                InTrees(g, rendered.rows[c], 1)

(* C6: every span whose _parent_span_id names a span id absent from the   *)
(* ledger is listed in orphans and shown as a root, with the spans below  *)
(* it, in the validator's replay_lines and in the renderer's trees.       *)
C6_OrphansRendered == OrphansInReplay /\ OrphansInTrees

----------------------------------------------------------------------------

AllLines == UNION {{files[p][i] : i \in DOMAIN files[p]} : p \in LedgerPaths}

(* C11: no payload written to a ledger file, by emit, append_event or     *)
(* EventLedger.append, by boot or by shutdown, has one of the keys         *)
(* trace_id, span_id, parent_span_id.                                      *)
C11_NoForbiddenPayloadKeys ==
    \A line \in AllLines :
        DOMAIN json_loads(line)["payload"] \cap FORBIDDEN_PAYLOAD_KEYS = {}

(* A client passed the legacy span_id and the line written carries it as *)
(* _span_id.                                                             *)
C11_Witness ==
    /\ outcome.call = "emit"
    /\ outcome.raised = None
    /\ \E line \in AllLines :
        Get(json_loads(line)["payload"], "_span_id") = MetaValues["span_id"]

(* An actor no event may be attributed to. *)
BadActor(act) ==
    \/ "kind" \notin DOMAIN act \/ act["kind"] = ""
    \/ "id" \notin DOMAIN act \/ act["id"] = "" \/ act["id"] = "unknown"

(* A step that is a client's call of emit, append_event or EventLedger.append. *)
WriteCallStep ==
    /\ outcome'.call \in {"emit", "ledger.append"}
    /\ outcome' /= outcome \/ files' /= files
    /\ UNCHANGED process_vars

(* C12: a write call whose effective actor (the argument, else the ambient *)
(* actor) lacks kind or id, or has id "unknown", raises and leaves the     *)
(* ledger as it was; no line of the ledger carries such an actor.          *)
C12_BadActorRejected ==
    [][/\ WriteCallStep /\ BadActor(outcome'.actor) =>
            files' = files /\ outcome'.raised /= None
       /\ \A p \in LedgerPaths : \A i \in DOMAIN files'[p] :
            ~BadActor(json_loads(files'[p][i])["actor"])]_vars

(* A call with an explicit actor of id "unknown" has raised. *)
C12_Witness ==
    /\ outcome.call = "emit"
    /\ outcome.raised = "AssertionError"
    /\ Get(outcome.actor, "id") = "unknown"
    /\ Len(files[EVENTS_FILE]) > 0

(* C13: every system.boot and system.shutdown envelope of the ledger has *)
(* trace_id equal to its payload.run_id and a session_id other than      *)
(* "unknown".                                                            *)
C13_TraceIsRunId ==
    \A i \in DOMAIN Events :
        IsBoot(Events[i]) \/ IsShutdown(Events[i]) =>
            /\ Events[i]["trace_id"] = Events[i]["payload"]["run_id"]
            /\ Events[i]["session_id"] /= "unknown"

IsPrefix(a, b) == Len(a) <= Len(b) /\ SubSeq(b, 1, Len(a)) = a

LacksSystemId(idf) ==
    idf /= Absent /\ ("system_id" \notin DOMAIN idf[1] \/ idf[1]["system_id"] = "")

(* C16: a call of boot() that finds an identity file without a non-empty *)
(* system_id returns no BootContext, leaves the identity file as it was  *)
(* and appends nothing.                                                  *)
C16_CorruptIdentityIsFatal ==
    [][n_boots' = n_boots + 1 /\ LacksSystemId(identity_file) =>
        /\ identity_file' = identity_file
        /\ files' = files
        /\ ctx' = NoCtx
        /\ pc' = "idle"]_vars

(* boot() has been called on such an installation. *)
C16_Witness ==
    /\ n_boots > 0
    /\ LacksSystemId(identity_file)
    /\ Events = <<>>

(* C17: every system.boot record carries the system_id persisted in the *)
(* identity file, and no two of them share a process_id or a run_id.     *)
C17_StableSystemId ==
    /\ \A i \in DOMAIN Events :
        IsBoot(Events[i]) =>
            /\ identity_file /= Absent
            /\ Events[i]["payload"]["system_id"] = identity_file[1]["system_id"]
    /\ \A i, j \in DOMAIN Events :
        IsBoot(Events[i]) /\ IsBoot(Events[j]) /\ i /= j =>
            /\ Events[i]["payload"]["process_id"] /= Events[j]["payload"]["process_id"]
            /\ Events[i]["payload"]["run_id"] /= Events[j]["payload"]["run_id"]

(* The installation has booted three times. *)
C17_Witness ==
    /\ Cardinality({i \in DOMAIN Events : IsBoot(Events[i])}) = MaxBoots
    /\ pc = "running"

(* C18: a reader that finds a partial last line ends without error and   *)
(* has processed every complete line: the validator and the renderer     *)
(* return the rows of all complete lines, and boot() does not raise.     *)
C18_PartialLineTolerated ==
    /\ report.ran =>
        /\ "error" \notin DOMAIN report
        /\ report.rows = read_jsonl(files, EVENTS_FILE)
    /\ rendered.ran =>
        /\ "error" \notin DOMAIN rendered
        /\ rendered.rows = read_jsonl(files, EVENTS_FILE)
    /\ outcome.call = "boot" => outcome.raised = None

IsHashMessage(m) == m[1] = "payload_hash mismatch"

(* The number of envelopes of session sid among rows whose payload_hash is *)
(* not the hash of their payload as read back.                              *)
Mismatches(rows, sid) ==
    Cardinality({i \in DOMAIN rows :
        /\ parse_event(rows[i]).session_id = sid
        /\ verify_payload_hash(parse_event(rows[i])) /= Absent})

HashMessagesIn(msgs) == Cardinality({i \in DOMAIN msgs : IsHashMessage(msgs[i])})

(* C19: a non-strict replay_and_validate returns its report (it does not  *)
(* raise), with one warning per hash mismatch and no hash message among   *)
(* its errors; a strict one puts every hash mismatch among the errors,    *)
(* gives no warning, and raises exactly when its errors are non-empty.    *)
C19_StrictAndNonStrict ==
    report.ran /\ "error" \notin DOMAIN report =>
        \A i \in DOMAIN report.reports :
            LET r == report.reports[i]
                n == Mismatches(report.rows, r.session_id)
            IN  IF report.strict
                THEN /\ r.warnings = <<>>
                     /\ HashMessagesIn(r.errors) = n
                     /\ r.raised <=> r.errors /= <<>>
                ELSE /\ ~r.raised
                     /\ Len(r.warnings) = n
                     /\ HashMessagesIn(r.warnings) = n
                     /\ HashMessagesIn(r.errors) = 0

(* A strict run that raised over a session whose only defect is a hash *)
(* mismatch.                                                            *)
C19_Witness ==
    /\ report.ran /\ report.strict
    /\ Len(report.reports) = 1
    /\ report.reports[1].raised
    /\ Len(report.reports[1].errors) = 1
    /\ IsHashMessage(report.reports[1].errors[1])

(* The event types of the envelopes of session sid, in ledger order. *)
TypesOf(rows, sid) ==
    LET seq == SelectSeq(rows, LAMBDA r : r["session_id"] = sid)
    IN  [k \in 1..Len(seq) |-> seq[k]["event_type"]]

Defective(types) ==
    \/ Cardinality({i \in DOMAIN types : types[i] = "session.start"}) > 1
    \/ Cardinality({i \in DOMAIN types : types[i] = "session.end"}) > 1
    \/ types /= <<>> /\ types[1] /= "session.start"
    \/ \E i, j \in DOMAIN types :
        i < j /\ types[i] = "session.end" /\ types[j] \in {"user.message", "agent.reply"}

WriterEmitted(rows, sid) ==
    \A i \in DOMAIN rows :
        rows[i]["session_id"] = sid => rows[i]["schema_version"] = SCHEMA_VERSION

ErrorReported(sid) ==
    \/ \E i \in DOMAIN report.reports :
        report.reports[i].session_id = sid /\ report.reports[i].errors /= <<>>
    \/ verified.code /= 0

(* C20: once the validator and the verifier have both run over the       *)
(* ledger, a session of writer-emitted envelopes with more than one      *)
(* session.start, more than one session.end, a first event other than    *)
(* session.start, or a user.message or agent.reply after session.end has *)
(* an error reported by at least one of them.                            *)
C20_SessionDefectsReported ==
    report.ran /\ verified.ran =>
        \A sid \in {"s1"} :
            LET rows == report.rows
            IN  WriterEmitted(rows, sid) /\ Defective(TypesOf(rows, sid))
                    => ErrorReported(sid)

(* The session.end spans of a report, as positions of its span2event. *)
EndSpans(r) ==
    {i \in DOMAIN r.index.span2event :
        r.index.span2event[i].event_type = "session.end"}

(* C21: in every report, a session.end span whose parent is not the     *)
(* selected root comes with the error 'session.end parent !=            *)
(* root_span_id' and ok false, and when the session has session.end     *)
(* spans, ok is true exactly when all of them have the root as parent.  *)
C21_EveryEndUnderRoot ==
    \A i \in DOMAIN Reports :
        LET r    == Reports[i]
            v    == r.validations.session_end_parent_root
            good == \A e \in EndSpans(r) :
                        r.index.span2event[e].parent_span_id = v.root_span_id
        IN  /\ ~good => /\ HasError(r.errors, <<"session.end parent != root_span_id">>)
                        /\ ~v.ok
            /\ EndSpans(r) /= {} => (v.ok <=> good)

(* The spans of a report that are the outcome of a tool call, and whether *)
(* span i has such a span as child.                                       *)
OutcomeSpans(r) ==
    {i \in DOMAIN r.index.span2event :
        r.index.span2event[i].event_type \in {"tool.result", "tool.error"}}

HasOutcomeChild(r, i) ==
    \E j \in OutcomeSpans(r) :
        r.index.span2event[j].parent_span_id = r.index.span2event[i].span_id

CallSpans(r) ==
    {i \in DOMAIN r.index.span2event : r.index.span2event[i].event_type = "tool.call"}

MissingChildError(r, i) ==
    HasError(r.errors, <<"tool.call missing tool.result/tool.error child",
                         r.index.span2event[i].span_id>>)

(* C22: in every report, a tool.call span has the error 'tool.call     *)
(* missing tool.result/tool.error child' exactly when no tool.result or *)
(* tool.error span has it as parent.                                    *)
C22_CallNeedsOutcome ==
    \A k \in DOMAIN Reports :
        \A i \in CallSpans(Reports[k]) :
            MissingChildError(Reports[k], i) <=> ~HasOutcomeChild(Reports[k], i)

(* A report with a tool.call span that has an outcome and one that has none. *)
C22_Witness ==
    \E k \in DOMAIN Reports :
        \E i, j \in CallSpans(Reports[k]) :
            /\ HasOutcomeChild(Reports[k], i) /\ ~MissingChildError(Reports[k], i)
            /\ ~HasOutcomeChild(Reports[k], j) /\ MissingChildError(Reports[k], j)

(* C23: in every report, a tool.result or tool.error span whose parent is *)
(* not a tool.call span has an error reported about it: the parent error  *)
(* of its type, or the orphan error when its parent is not in the ledger. *)
C23_OutcomeNeedsCall ==
    \A k \in DOMAIN Reports :
        LET r   == Reports[k]
            s2e == r.index.span2event
        IN  \A i \in OutcomeSpans(r) :
                (~\E j \in CallSpans(r) : s2e[j].span_id = s2e[i].parent_span_id)
                => \/ HasError(r.errors, <<"tool.result parent must be tool.call">>)
                      /\ s2e[i].event_type = "tool.result"
                   \/ HasError(r.errors, <<"tool.error parent must be tool.call">>)
                      /\ s2e[i].event_type = "tool.error"
                   \/ /\ \E n \in 1..Len(s2e) :
                            HasError(r.errors, <<"orphan spans detected", n>>)
                      /\ s2e[i].parent_span_id /= None
                      /\ \A j \in DOMAIN s2e : s2e[j].span_id /= s2e[i].parent_span_id

SelectedRoot(r) == r.validations.session_end_parent_root.root_span_id

(* Span i of the report is among those no other span of it sorts before. *)
EarliestOf(r, set, i) ==
    /\ i \in set
    /\ \A j \in set : ~KeyLess(r.index.span2event[j], r.index.span2event[i])

(* C24 as stated: the selected root is the span of a session.start     *)
(* whenever the session has one, and otherwise the earliest span by    *)
(* (ts, event_type).                                                   *)
C24_RootIsSessionStart ==
    \A k \in DOMAIN Reports :
        LET r      == Reports[k]
            s2e    == r.index.span2event
            starts == {i \in DOMAIN s2e : s2e[i].event_type = "session.start"}
        IN  IF starts /= {}
            THEN \E i \in starts : s2e[i].span_id = SelectedRoot(r)
            ELSE s2e /= <<>> =>
                    \E i \in DOMAIN s2e :
                        /\ EarliestOf(r, DOMAIN s2e, i)
                        /\ s2e[i].span_id = SelectedRoot(r)

(* The spans with no parent or with a parent that is not a span of the *)
(* session.                                                            *)
RootSpans(r) ==
    LET s2e == r.index.span2event
    IN  {i \in DOMAIN s2e :
            \/ s2e[i].parent_span_id = None
            \/ \A j \in DOMAIN s2e : s2e[j].span_id /= s2e[i].parent_span_id}

(* C24, amended: the selected root is the earliest session.start among *)
(* the root spans when there is one, otherwise the earliest root span, *)
(* and none when the session has no root span.                         *)
C24_RootAmongRoots ==
    \A k \in DOMAIN Reports :
        LET r      == Reports[k]
            s2e    == r.index.span2event
            starts == {i \in RootSpans(r) : s2e[i].event_type = "session.start"}
        IN  IF starts /= {}
            THEN \E i \in starts :
                    EarliestOf(r, starts, i) /\ s2e[i].span_id = SelectedRoot(r)
            ELSE IF RootSpans(r) /= {}
            THEN \E i \in RootSpans(r) :
                    EarliestOf(r, RootSpans(r), i) /\ s2e[i].span_id = SelectedRoot(r)
            ELSE SelectedRoot(r) = None

(* A session.start root selected although another root sorts before it. *)
C24_Witness ==
    \E k \in DOMAIN Reports :
        LET r   == Reports[k]
            s2e == r.index.span2event
        IN  \E i, j \in RootSpans(r) :
                /\ s2e[i].span_id = SelectedRoot(r)
                /\ s2e[i].event_type = "session.start"
                /\ KeyLess(s2e[j], s2e[i])

(* The ledger with its lines in the order f gives. *)
Reordered(fs, f) ==
    [fs EXCEPT ![EVENTS_FILE] = [i \in DOMAIN fs[EVENTS_FILE] |-> fs[EVENTS_FILE][f[i]]]]

(* C25: the validator run over any reordering of the lines of the ledger *)
(* gives, session by session, the replay_lines and the validations of    *)
(* the run over the ledger as it is.                                     *)
C25_OrderIndependent ==
    report.ran /\ "error" \notin DOMAIN report =>
        \A f \in Permutations(DOMAIN files[EVENTS_FILE]) :
            LET other == replay_main(Reordered(files, f), EVENTS_FILE, Absent,
                                     report.strict).reports
            IN  /\ Len(other) = Len(report.reports)
                /\ \A k \in DOMAIN other :
                    /\ other[k].replay_lines = report.reports[k].replay_lines
                    /\ other[k].validations = report.reports[k].validations

(* The spans new_span() has returned so far, in order, and their parents. *)
ReturnedSpan(k) == tc.returned[k][1]

ReturnedParent(k) == tc.returned[k][2]

(* C26: a call of new_span() returns a span id that no earlier call     *)
(* returned, with the top of the stack before the call as parent (None *)
(* for an empty stack), and leaves the stack as it was with the new id *)
(* on top.                                                             *)
C26_NewSpanPushesFresh ==
    [][Len(tc'.returned) = Len(tc.returned) + 1 =>
        LET pair == tc'.returned[Len(tc'.returned)]
        IN  /\ \A k \in DOMAIN tc.returned : ReturnedSpan(k) /= pair[1]
            /\ pair[2] = IF tc.stack = <<>> THEN None ELSE tc.stack[Len(tc.stack)]
            /\ tc'.stack = Append(tc.stack, pair[1])]_vars

(* A span opened under two open spans. *)
C26_Witness ==
    /\ Len(tc.stack) = 3
    /\ tc.returned /= <<>>
    /\ tc.returned[Len(tc.returned)] = <<tc.stack[3], tc.stack[2]>>

(* The positions in calls of the k-th new_span() call. *)
CallOfSpan(k) ==
    CHOOSE i \in DOMAIN tc.calls :
        /\ tc.calls[i] = "new_span"
        /\ Cardinality({j \in 1..i : tc.calls[j] = "new_span"}) = k

(* Span k + 1 was opened right after span k was closed. *)
BackToBack(k) ==
    /\ k + 1 \in DOMAIN tc.returned
    /\ CallOfSpan(k + 1) = CallOfSpan(k) + 2
    /\ tc.calls[CallOfSpan(k) + 1] = "end_span"

(* C27: two spans opened back to back, the first closed before the     *)
(* second is opened, have the same parent; and the pair a call          *)
(* returned is the same in every later state.                           *)
C27_SiblingsShareParent ==
    /\ [](\A k \in DOMAIN tc.returned : BackToBack(k) => ReturnedParent(k + 1) = ReturnedParent(k))
    /\ [][\A k \in DOMAIN tc.returned : tc'.returned[k] = tc.returned[k]]_vars

(* Two siblings under an open span, and the stack top moved on since. *)
C27_Witness ==
    \E k \in DOMAIN tc.returned :
        /\ BackToBack(k)
        /\ ReturnedParent(k) /= None
        /\ ReturnedParent(k + 1) = ReturnedParent(k)
        /\ tc.stack = <<>>

(* The spans opened and not yet closed after the first n calls, each *)
(* end_span() closing the span opened last among those still open.   *)
RECURSIVE OpenSpans(_)
OpenSpans(n) ==
    IF n = 0 THEN <<>>
    ELSE LET before == OpenSpans(n - 1)
         IN  IF tc.calls[n] = "new_span"
             THEN Append(before, ReturnedSpan(Cardinality({j \in 1..n : tc.calls[j] = "new_span"})))
             ELSE IF before = <<>> THEN <<>>
             ELSE SubSeq(before, 1, Len(before) - 1)

(* C28: end_span() on an empty stack leaves it empty, on a non-empty   *)
(* stack it removes the top and nothing else, and the stack always     *)
(* holds the spans opened and not yet closed, in opening order.        *)
C28_EndSpanPopsTop ==
    /\ [](tc.stack = OpenSpans(Len(tc.calls)))
    /\ [][Len(tc'.calls) = Len(tc.calls) + 1 /\ Len(tc'.returned) = Len(tc.returned) =>
            IF tc.stack = <<>> THEN tc'.stack = <<>>
            ELSE tc'.stack = SubSeq(tc.stack, 1, Len(tc.stack) - 1)]_vars

(* end_span() was called on an empty stack and, later, on one of two spans. *)
C28_Witness ==
    /\ Len(tc.calls) >= 5
    /\ tc.calls[1] = "end_span"
    /\ tc.calls[Len(tc.calls)] = "end_span"
    /\ Len(tc.stack) = 1
    /\ Len(tc.returned) >= 2

(* The envelope a step has appended to the events file. *)
Appended == json_loads(files'[EVENTS_FILE][Len(files'[EVENTS_FILE])])

(* C29: an envelope written by emit / append_event called without actor *)
(* carries the ambient actor (the one last given to set_current_actor,  *)
(* else the default, of kind runtime with a non-empty id); called with  *)
(* an actor it carries that actor; and the call leaves the ambient      *)
(* actor as it was.                                                     *)
C29_ActorOfEnvelope ==
    [][WriteCallStep /\ outcome'.call = "emit" /\ files' /= files =>
        /\ actor_var' = actor_var
        /\ outcome'.arg /= Absent => Appended["actor"] = outcome'.arg[1]
        /\ outcome'.arg = Absent /\ actor_var /= Absent =>
                Appended["actor"] = actor_var[1]
        /\ outcome'.arg = Absent /\ actor_var = Absent =>
                /\ Appended["actor"]["kind"] = "runtime"
                /\ Appended["actor"]["id"] \notin {"", None}]_vars

(* An envelope written with an actor passed while another one is ambient. *)
C29_Witness ==
    /\ outcome.call = "emit"
    /\ outcome.raised = None
    /\ outcome.arg /= Absent
    /\ actor_var /= Absent
    /\ actor_var /= outcome.arg
    /\ json_loads(files[EVENTS_FILE][Len(files[EVENTS_FILE])])["actor"] = outcome.arg[1]

(* The kinds an ActorContext may have. *)
ActorKinds == {"runtime", "agent", "human", "tool", "system"}

(* C30: every envelope of the ledger has a top-level actor whose kind is *)
(* one of runtime, agent, human, tool, system and whose id is non-empty  *)
(* and not "unknown".                                                    *)
C30_ActorKindAllowed ==
    \A line \in AllLines :
        LET env == json_loads(line)
        IN  /\ "actor" \in DOMAIN env
            /\ Get(env["actor"], "kind") \in ActorKinds
            /\ Get(env["actor"], "id") \notin {None, "", "unknown"}

----------------------------------------------------------------------------
(* C31: two payloads of the same key/value content, built in different   *)
(* key orders at any nesting level, have the same canonical string and   *)
(* the same payload_hash, on every call.                                 *)
C31_KeyOrderIrrelevant ==
    outcome.call = "canonical_json" =>
        \A other \in PayloadBuilds :
            dict_of(other) = dict_of(outcome.arg) =>
                /\ canonical_json_of_items(other) = outcome.text
                /\ sha256_hex(canonical_json_of_items(other)) = outcome.hash

(* A payload canonicalized that can be built in another order at both levels. *)
C31_Witness ==
    /\ outcome.call = "canonical_json"
    /\ Len(outcome.arg) = 3
    /\ \E other \in PayloadBuilds :
        /\ dict_of(other) = dict_of(outcome.arg)
        /\ other[1][1] /= outcome.arg[1][1]
        /\ Len(ItemOf(other, "args")[2]) = 2
        /\ ItemOf(other, "args")[2] /= ItemOf(outcome.arg, "args")[2]

----------------------------------------------------------------------------
(* The record a step has appended to the observability file. *)
Logged == files'[OBS_EVENTS_FILE][Len(files'[OBS_EVENTS_FILE])]

(* C32: once boot() has returned, every observability record log_event  *)
(* writes during the run carries the run_id of the BootContext (never   *)
(* "unknown", None or a session id), its system_id and process_id, and  *)
(* a non-empty session_id.                                              *)
C32_RecordCarriesRunId ==
    [][Len(files'[OBS_EVENTS_FILE]) > Len(files[OBS_EVENTS_FILE]) =>
            /\ Logged["run_id"] = ctx.run_id
            /\ Logged["run_id"] \notin {"unknown", None, outcome'.session_id}
            /\ Get(Logged, "system_id") = ctx.system_id
            /\ Get(Logged, "process_id") = ctx.process_id
            /\ Truthy(Get(Logged, "session_id"))]_vars

----------------------------------------------------------------------------
(* The depth of a span row below a root (a row without parent, or whose *)
(* parent is no span of the ledger); the rows of a cycle have none.     *)
RECURSIVE AtDepth(_, _, _)
AtDepth(rows, i, k) ==
    IF k = 0 THEN ~Truthy(ParentOf(rows[i])) \/ ParentOf(rows[i]) \notin SpanSetOf(rows)
    ELSE \E j \in DOMAIN rows :
            /\ SpanOf(rows[j]) = ParentOf(rows[i])
            /\ AtDepth(rows, j, k - 1)

HasChildren(rows, span) == \E j \in DOMAIN rows : ParentOf(rows[j]) = span

NodeLine(line, span, k) == line.kind = "node" /\ line.shown.span = span /\ line.depth = k

(* C33: with --max-depth d the renderer prints every node at depth <= d *)
(* and no deeper node, and right under every printed depth-d node that  *)
(* has children it prints the "max depth reached" marker.               *)
C33_TruncationMarked ==
    (rendered.ran /\ "max_depth" \in DOMAIN rendered /\ rendered.rows /= <<>>) =>
        LET d     == rendered.max_depth[1]
            rows  == rendered.rows
            lines == rendered.groups[1].lines
        IN  /\ \A i \in DOMAIN rows : \A k \in 0..d :
                    AtDepth(rows, i, k) =>
                        \E l \in DOMAIN lines : NodeLine(lines[l], SpanOf(rows[i]), k)
            /\ \A l \in DOMAIN lines :
                    lines[l].kind = "node" =>
                        /\ lines[l].depth <= d
                        /\ \E i \in DOMAIN rows :
                            /\ SpanOf(rows[i]) = lines[l].shown.span
                            /\ AtDepth(rows, i, lines[l].depth)
            /\ \A l \in DOMAIN lines :
                    (lines[l].kind = "node" /\ lines[l].depth = d
                        /\ HasChildren(rows, lines[l].shown.span)) =>
                            /\ l < Len(lines)
                            /\ lines[l + 1].kind = "max depth reached"
            /\ \A l \in DOMAIN lines :
                    lines[l].kind = "max depth reached" =>
                        /\ l > 1
                        /\ lines[l - 1].kind = "node"
                        /\ lines[l - 1].depth = d
                        /\ HasChildren(rows, lines[l - 1].shown.span)

(* A chain of three spans rendered with --max-depth 1: the grandchild is *)
(* replaced by the marker.                                               *)
C33_Witness ==
    /\ rendered.ran
    /\ "max_depth" \in DOMAIN rendered
    /\ rendered.max_depth = Some(1)
    /\ Len(rendered.rows) = 3
    /\ \E i \in DOMAIN rendered.rows : AtDepth(rendered.rows, i, 2)
    /\ \E l \in DOMAIN rendered.groups[1].lines :
            rendered.groups[1].lines[l].kind = "max depth reached"

----------------------------------------------------------------------------
DecisionsOf(i) == {j \in DOMAIN gov.decisions : gov.decisions[j].request = i}

Forwarded(i) == \E j \in DOMAIN gov.forwarded : gov.forwarded[j].request = i

PositionIn(trace, event) == CHOOSE k \in DOMAIN trace : trace[k] = event

(* C34: for every tools/call and resources/read request the governance  *)
(* layer has received, exactly one decision record is in the decision   *)
(* log; it was appended before the request was forwarded; and a request *)
(* recorded as blocked is never forwarded.                              *)
C34_OneDecisionPerRequest ==
    \A i \in DOMAIN gov.requests :
        /\ Cardinality(DecisionsOf(i)) = 1
        /\ Forwarded(i) =>
                PositionIn(gov.trace, <<"decision", i>>) < PositionIn(gov.trace, <<"forward", i>>)
        /\ \A j \in DecisionsOf(i) : gov.decisions[j].outcome = "blocked" => ~Forwarded(i)

(* The request a step has handled, its number, its response and its *)
(* decision record if there is one.                                 *)
Handled == Len(gov'.requests) > Len(gov.requests)

HandledNo == Len(gov'.requests)

HandledForwarded == \E j \in DOMAIN gov'.forwarded : gov'.forwarded[j].request = HandledNo

HandledLogged(decision, what, ov) ==
    \E j \in DOMAIN gov'.decisions :
        LET d == gov'.decisions[j]
        IN  /\ d.request = HandledNo
            /\ d.decision = decision
            /\ d.outcome = what
            /\ d.override_id = IF ov = Absent THEN None ELSE ov[1].override_id
            /\ d.override_who = IF ov = Absent THEN None ELSE ov[1].who
            /\ d.override_reason = IF ov = Absent THEN None ELSE ov[1].reason

(* The overrides on file that have not expired and whose scope matches. *)
ValidOverrides(request_summary) ==
    {k \in DOMAIN gov.overrides :
        LET rec == gov.overrides[k]
        IN  /\ rec.expires_at.parsed
            /\ rec.expires_at.aware
            /\ rec.expires_at.at > now
            /\ scope_applies(rec, request_summary)}

(* C35: a request the policy answers REQUIRE_OVERRIDE is forwarded if   *)
(* and only if the override store holds an unexpired override whose     *)
(* scope matches; it is then logged OVERRIDDEN / forwarded with that    *)
(* override's id, who and reason, and otherwise answered with code 401  *)
(* and logged DENY / blocked.  A request the policy answers DENY is     *)
(* never forwarded, whatever overrides exist.                           *)
C35_OverrideGatesForwarding ==
    [][(Handled /\ ~summarize_raises(gov'.requests[HandledNo])) =>
        LET s == summarize(gov'.requests[HandledNo])
        IN  /\ evaluate(s).decision = "REQUIRE_OVERRIDE" =>
                /\ HandledForwarded <=> ValidOverrides(s) /= {}
                /\ HandledForwarded =>
                    \E k \in ValidOverrides(s) :
                        HandledLogged("OVERRIDDEN", "forwarded", Some(gov.overrides[k]))
                /\ ~HandledForwarded =>
                    /\ gov'.responses[Len(gov'.responses)].code = 401
                    /\ HandledLogged("DENY", "blocked", Absent)
            /\ evaluate(s).decision = "DENY" => ~HandledForwarded]_vars

----------------------------------------------------------------------------
(* ----- P08 memory gate ----- *)

(* The step is one call of gate.save_memory. *)
Saved == mem'.saves = mem.saves + 1

(* The events the call appended to the ledger files. *)
SaveLogged == SubSeq(files'[EVENTS_FILE], Len(files[EVENTS_FILE]) + 1, Len(files'[EVENTS_FILE]))

SaveEventTypes == {Get(json_loads(SaveLogged[i]), "event_type") : i \in 1..Len(SaveLogged)}

StoreUnchanged == mem'.store = mem.store /\ has_store' = has_store

(* blocked: one memory.zone_validation with ok = false, no store write. *)
RefusedAtGate(reason) ==
    /\ outcome'.result.status = "blocked"
    /\ outcome'.result.decision.reason = reason
    /\ Len(SaveLogged) = 1
    /\ LET e == json_loads(SaveLogged[1])
       IN  /\ e.event_type = "memory.zone_validation"
           /\ e.payload.ok = FALSE
           /\ e.payload.decision.reason = reason
    /\ StoreUnchanged

PassedToStore == "memory.write_proposed" \in SaveEventTypes

WritableZones == MemoryZone \ {"legacy"}

SchemaCurrent(k) ==
    k.schema_version /= Absent /\ k.schema_version[1] = mem.runtime.supported_schema_version

----------------------------------------------------------------------------
(* ----- boot mode table ----- *)

(* The run of the most recent system.boot of the events, when there is one. *)
MostRecentBoot(events) ==
    LET boots == {i \in DOMAIN events : IsBoot(events[i])}
    IN  IF boots = {} THEN Absent
        ELSE Some(events[CHOOSE i \in boots : \A j \in boots : j <= i]["payload"]["run_id"])

(* Runs of the events that were booted and never shut down. *)
UnclosedRuns(events) ==
    {rid \in RunIdsIn(events) : BootsOf(events, rid) /= {} /\ ShutdownsOf(events, rid) = {}}

----------------------------------------------------------------------------
(* ----- the file behind an EventLedger ----- *)

(* A step in which boot() or shutdown() appended through the EventLedger. *)
LedgerAppended ==
    /\ BootReturns \/ \E r \in ExitReasons : Shutdown(r)
    /\ files' /= files

(* C38: an event appended through the EventLedger on ledger_path is      *)
(* written to that file and to no other, so that read_all() of the same  *)
(* ledger returns what it returned before followed by the new event;     *)
(* the file boot() scans is the file boot() and shutdown() write.        *)
C38_AppendThenReadAll ==
    [][LedgerAppended =>
        LET before == read_all(files, ledger_path)
            after  == read_all(files', ledger_path)
        IN  /\ Len(after) = Len(before) + 1
            /\ SubSeq(after, 1, Len(before)) = before
            /\ LastOf(after)["event_type"] \in {"system.boot", "system.shutdown"}
            /\ \A p \in FilePaths \ {ledger_path} : files'[p] = files[p]]_vars

----------------------------------------------------------------------------
(* ----- one graph, two builders ----- *)

(* The span envelopes of the ledger as each tool reads and sorts them. *)
SpanRows == SelectSeq(read_jsonl(files, EVENTS_FILE),
                      LAMBDA row : Truthy(Get(PayloadOf(row), "_span_id")))

ValidatorEvents == sort_by_key([i \in 1..Len(SpanRows) |-> parse_event(SpanRows[i])])

RendererNodes == sort_by_key([i \in 1..Len(SpanRows) |-> extract_node(SpanRows[i])[1]])

SameEnvelope(ev, n) ==
    /\ ev.event_type = n.event_type
    /\ ev.ts = n.ts
    /\ ev.parent_span_id = n.parent_span_id
    /\ ev.payload = n.payload

(* C39: for the span envelopes of any ledger, _build_tree and            *)
(* build_span_index give the same graph: every span id stands for the    *)
(* same envelope, and children, roots and orphans are equal.             *)
C39_SameGraph ==
    LET index == build_span_index(ValidatorEvents)
        tree  == build_tree(RendererNodes)
    IN  /\ Range(SpanIdsOf(index.span2event)) = NodeIds(RendererNodes)
        /\ \A sid \in NodeIds(RendererNodes) :
                SameEnvelope(Lookup(index.span2event, sid), id2node_of(RendererNodes, sid))
        /\ index.children = tree.children
        /\ index.roots = tree.roots
        /\ index.orphans = tree.orphans

----------------------------------------------------------------------------
(* ----- the tree walks end ----- *)

(* Head lines ("- event_type actor=... ts=...") of a replay: one per visit. *)
VisitsIn(replay_lines) ==
    Cardinality({i \in DOMAIN replay_lines : replay_lines[i].text[1] = "-"})

(* C40: on every ledger, with repeated span ids, self-parented spans or  *)
(* parent cycles, the walks end: _walk_tree visits each span of the      *)
(* session at most once, and _print_tree prints every group without      *)
(* running into RecursionError.                                          *)
C40_WalksTerminate ==
    /\ report.ran =>
            \A i \in DOMAIN report.reports :
                VisitsIn(report.reports[i].replay_lines)
                    <= Len(report.reports[i].index.span2event)
    /\ rendered.ran =>
            \A i \in DOMAIN rendered.groups : ~rendered.groups[i].raised

====
